---- MODULE Spec2Model ----
(***************************************************************************)
(* A model of the worker-coordination core of the engine: Thread (park /   *)
(* wake protocol of thread.cpp), ThreadPool (set, start_thinking,          *)
(* start_searching, wait_for_search_finished) and the session runner       *)
(* (stockfish_thread_wrapper) with the option table of ucioption.cpp.      *)
(*                                                                         *)
(* Every std::mutex is a variable holding its owner, every                 *)
(* std::condition_variable the set of threads blocked in wait(); a         *)
(* function of the source that takes a lock or blocks is one action per    *)
(* step between two synchronisation points.                                *)
(***************************************************************************)
EXTENDS Integers, Sequences, FiniteSets, TLC

\* ------------------------------------------------------------------ bounds
MaxThreads == 2      \* largest pool size a command asks for
MaxNodes == 1        \* cap of a worker's node counter

\* --------------------------------------------------------------- processes
Slots == 0 .. (MaxThreads - 1)     \* Thread::idx; the worker thread of slot i is process i
Uci == -1                          \* the thread running the command loop (the caller of the pool)
Free == -2                         \* owner of an unlocked std::mutex
Callers == {Uci, 0}                \* threads that call into Thread objects: command loop, main thread
Procs == Slots \cup {Uci}

VARIABLES
  threads,      \* ThreadPool::threads: sequence of the dynamic types ("Main"/"Plain") of its slots
  kind,         \* dynamic type of the Thread object with idx i, "None" when no such object exists
  searching,    \* Thread::searching
  exit,         \* Thread::exit
  mutex,        \* Thread::mutex: its owner, or Free
  cv,           \* Thread::cv: the threads blocked in cv.wait()
  wpc,          \* position of the worker thread (stdThread) of slot i in idle_loop()/search()
  call,         \* per calling thread: the Thread member function it is executing, and where
  upc,          \* position of the command-loop thread in ThreadPool::set / start_thinking
  requested,    \* argument of the running ThreadPool::set
  uk,           \* loop index of the command-loop thread (start_thinking's loop over threads)
  mk,           \* loop index of the main thread (pool start_searching / wait_for_search_finished)
  stop,         \* ThreadPool::stop
  nodes,        \* Thread::nodes
  ndebug,       \* build configuration: TRUE when assert() is compiled out (-DNDEBUG)
  aborted,      \* the process was terminated: a failed assert(), or a fault
  hist,         \* history variables (observations only; no action's guard reads them)
  \* ---- process-wide state of the session runner and of the option table
  unit,         \* the translation unit that defines stockfish_thread_wrapper
  tuned,        \* build configuration: TRUE when the build declares a tuned parameter
  mtx,          \* stockfish_thread_wrapper's static std::mutex: the session holding it, or 0
  bitboards_initialized,   \* static flag of part_000's runner
  options_initialized,     \* static flag of part_001's runner
  initCalls,    \* number of times Bitboards::init() has run
  insert_order, \* the static counter of Option::operator<<
  LastOption,   \* tune's global pointer to the option made last: <<session, name>>
  TT,           \* the hash size of the TranspositionTable that on_hash_size resizes
  \* ---- per session
  sess,         \* position of the session's runner thread, and its locals
  Options,      \* the session's OptionsMap: name -> [idx, value]
  \* ---- output channels
  out,          \* per session: the lines written to its output pipe, each with its producer
  console,      \* the lines written to the process's console (stdout, unredirected std::cout)
  cout_rdbuf,   \* std::cout.rdbuf(): 0 for the console, or the session whose pipe it writes
  \* ---- exclusive emission on one session's ThreadIoStreams
  iom,          \* ThreadIoStreams::m: its owner, or Free
  ipc,          \* per thread of the session: its position in an emission block
  iblk,         \* per thread: the blocks it has written
  ios,          \* the session's output stream: the lines written, in order
  \* ---- the root moves
  go,           \* start_thinking()'s arguments and its local rootMoves, while it runs
  wstat,        \* per Thread: tbHits, nmpMinPly, bestMoveChanges, rootDepth,
                \* completedDepth and rootMoves
  \* ---- the position history
  states,       \* the caller's StateListPtr handed to start_thinking(): a list or Null
  setupStates,  \* ThreadPool::setupStates: the list the pool retains, or Null
  \* ---- ThreadPool::get_best_thread()
  gbt,          \* the workers' snapshot, bestThread, the loop index and the position
  \* ---- pipe_wrapper(), the opener of a session
  opener,       \* per opener: its position and the status it returned
  fds,          \* the process's open descriptors: <<opener, end of a pipe>>
  \* ---- Option::operator=
  opt,          \* one Option: type, currentValue, on_change, and what was assigned
  \* ---- ThreadPool::accumulate
  acc,          \* per caller: the member summed, the local sum, and the value returned
  \* ---- main() and the runner threads of the supervised sessions
  super         \* main's position, loop index and status; per session: whether its
                \* runner thread has terminated, the lines its supervisor has read

histVars == <<states, setupStates>>
thinkVars == <<go, wstat>>
poolState == <<threads, kind, searching, exit, mutex, cv, wpc, call, upc, requested,
               uk, mk, stop, nodes, hist, histVars, thinkVars>>
sessVars == <<unit, tuned, mtx, bitboards_initialized, options_initialized, initCalls,
              insert_order, LastOption, TT, sess, Options, out, console, cout_rdbuf>>
pipeVars == <<out, console, cout_rdbuf>>
ioVars == <<iom, ipc, iblk, ios>>
openVars == <<opener, fds>>
soloVars == <<openVars, opt, acc, super>>
vars == <<poolState, ndebug, aborted, sessVars, ioVars, gbt, soloVars>>

poolVars == <<threads, upc, requested, uk>>
objVars == <<kind, searching, exit, mutex, cv>>

\* The moves of the positions searched; a position is the list MoveList<LEGAL>(pos)
\* enumerates, limits.searchmoves is a set of moves
Moves == {"e4", "d4"}
Positions == {<<>>, <<"e4">>, <<"e4", "d4">>}
GoArgs == {[legal |-> l, searchmoves |-> a, rootMoves |-> <<>>] : l \in Positions, a \in SUBSET Moves}
\* What the command loop asks for: a position with one legal move, no allow-list
UciGo == {[legal |-> <<"e4">>, searchmoves |-> {}, rootMoves |-> <<>>]}
NoGo == [legal |-> <<>>, searchmoves |-> {}, rootMoves |-> <<>>]

\* Thread's members that start_thinking() resets, as constructed and after a
\* search has touched them
Fresh(rm) == [tbHits |-> 0, nmpMinPly |-> 0, bestMoveChanges |-> 0, rootDepth |-> 0,
              completedDepth |-> 0, rootMoves |-> rm]
Touched(rm) == [tbHits |-> 1, nmpMinPly |-> 1, bestMoveChanges |-> 1, rootDepth |-> 1,
                completedDepth |-> 1, rootMoves |-> rm]

\* thread.cpp:180-183  for m in MoveList<LEGAL>(pos): if searchmoves is empty or
\* holds m, rootMoves.emplace_back(m)
Allowed(legal, searchmoves) ==
  SelectSeq(legal, LAMBDA mv : searchmoves = {} \/ mv \in searchmoves)

\* Tablebases::rank_root_moves (an external collaborator) ranks the list it is
\* given by reference: any arrangement of its moves may come back
Ranked(rm) ==
  LET S == {rm[k] : k \in DOMAIN rm}
  IN  {s \in [DOMAIN rm -> S] : \A j, k \in DOMAIN s : j # k => s[j] # s[k]}

\* An empty StateListPtr, and the history lists a caller may hand over
Null == "nullptr"
Lists == {"startpos", "moves"}
Handles == Lists \cup {Null}
\* What the command loop hands over: the list of the position it set up, or the
\* handle a previous start_thinking() emptied
UciHandles == {"startpos", Null}

NoCall == [op |-> "none", t |-> 0, pc |-> "", ret |-> ""]
Frame(op, t, pc, ret) == [op |-> op, t |-> t, pc |-> pc, ret |-> ret]

InCall(p, op, pc) == ~aborted /\ call[p].op = op /\ call[p].pc = pc
AtW(i, pc) == ~aborted /\ wpc[i] = pc /\ call[i] = NoCall
AtU(pc) == ~aborted /\ upc = pc /\ call[Uci] = NoCall

Goto(p, pc) == call' = [call EXCEPT ![p].pc = pc]

\* Return from the member function p is executing: back into ~Thread (before the
\* join) when it was called from there, else to p's caller.
Return(p) ==
  call' = [call EXCEPT ![p] = IF call[p].ret = "dtor"
                               THEN Frame("dtor", call[p].t, "join", "")
                               ELSE NoCall]

\* std::condition_variable::notify_one: no effect without a waiter, else any one
\* waiter is unblocked (it still has to re-acquire the mutex).
NotifyOne(S) == IF S = {} THEN {S} ELSE {S \ {w} : w \in S}

\* ===================================================================== Thread
\* ------------------------------------------------ Thread::start_searching()
\* thread.cpp:75  mutex.lock()
SS_lock(p) ==
  /\ InCall(p, "start_searching", "lock")
  /\ mutex[call[p].t] = Free
  /\ mutex' = [mutex EXCEPT ![call[p].t] = p]
  /\ Goto(p, "set")
  /\ UNCHANGED <<thinkVars, histVars, soloVars, gbt, ioVars, sessVars, poolVars, kind, searching, exit, cv, wpc, mk, stop, nodes, ndebug, aborted, hist>>

\* thread.cpp:76  searching = true.  History: a wake-up request is pending when an
\* idle worker that is not asked to exit is set to searching.
SS_set(p) ==
  LET t == call[p].t IN
  /\ InCall(p, "start_searching", "set")
  /\ searching' = [searching EXCEPT ![t] = TRUE]
  /\ hist' = [hist EXCEPT !.pending[t] = IF ~searching[t] /\ ~exit[t] THEN @ + 1 ELSE @,
                          !.sets[t] = IF p = 0 /\ @ < 2 THEN @ + 1 ELSE @]
  /\ Goto(p, "unlock")
  /\ UNCHANGED <<thinkVars, histVars, soloVars, gbt, ioVars, sessVars, poolVars, kind, exit, mutex, cv, wpc, mk, stop, nodes, ndebug, aborted>>

\* thread.cpp:77  mutex.unlock()
SS_unlock(p) ==
  /\ InCall(p, "start_searching", "unlock")
  /\ mutex' = [mutex EXCEPT ![call[p].t] = Free]
  /\ Goto(p, "notify")
  /\ UNCHANGED <<thinkVars, histVars, soloVars, gbt, ioVars, sessVars, poolVars, kind, searching, exit, cv, wpc, mk, stop, nodes, ndebug, aborted, hist>>

\* Mutant of SS_notify: the notification is forgotten.
SS_notify_Forgotten(p) ==
  /\ InCall(p, "start_searching", "notify")
  /\ Return(p)
  /\ UNCHANGED <<thinkVars, histVars, soloVars, gbt, ioVars, sessVars, poolVars, objVars, wpc, mk, stop, nodes, ndebug, aborted, hist>>

\* thread.cpp:78  cv.notify_one(), then return
SS_notify(p) ==
  LET t == call[p].t IN
  /\ InCall(p, "start_searching", "notify")
  /\ \E S \in NotifyOne(cv[t]) : cv' = [cv EXCEPT ![t] = S]
  /\ Return(p)
  /\ UNCHANGED <<thinkVars, histVars, soloVars, gbt, ioVars, sessVars, poolVars, kind, searching, exit, mutex, wpc, mk, stop, nodes, ndebug, aborted, hist>>

\* ----------------------------------------- Thread::wait_for_search_finished()
\* thread.cpp:87  std::unique_lock<std::mutex> lk(mutex)
WSF_lock(p) ==
  /\ InCall(p, "wait_for_search_finished", "lock")
  /\ mutex[call[p].t] = Free
  /\ mutex' = [mutex EXCEPT ![call[p].t] = p]
  /\ Goto(p, "wait")
  /\ UNCHANGED <<thinkVars, histVars, soloVars, gbt, ioVars, sessVars, poolVars, kind, searching, exit, cv, wpc, mk, stop, nodes, ndebug, aborted, hist>>

\* thread.cpp:88  cv.wait(lk, [&]{ return !searching; }): with the lock held, test the
\* predicate; when it holds, return (lk's destructor unlocks), else release the lock
\* and block.
WSF_wait(p) ==
  LET t == call[p].t IN
  /\ InCall(p, "wait_for_search_finished", "wait")
  /\ IF ~searching[t]
       THEN /\ mutex' = [mutex EXCEPT ![t] = Free]
            /\ Return(p)
            /\ cv' = cv
            /\ hist' = [hist EXCEPT !.seenIdle[t] = IF p = 0 THEN mutex[t] = p ELSE @]
       ELSE /\ mutex' = [mutex EXCEPT ![t] = Free]
            /\ cv' = [cv EXCEPT ![t] = @ \cup {p}]
            /\ Goto(p, "blocked")
            /\ hist' = hist
  /\ UNCHANGED <<thinkVars, histVars, soloVars, gbt, ioVars, sessVars, poolVars, kind, searching, exit, wpc, mk, stop, nodes, ndebug, aborted>>

\* thread.cpp:88  a notified (or spuriously woken) waiter re-acquires the lock and
\* tests the predicate again.
WSF_wake(p) ==
  LET t == call[p].t IN
  /\ InCall(p, "wait_for_search_finished", "blocked")
  /\ p \notin cv[t]
  /\ mutex[t] = Free
  /\ mutex' = [mutex EXCEPT ![t] = p]
  /\ Goto(p, "wait")
  /\ UNCHANGED <<thinkVars, histVars, soloVars, gbt, ioVars, sessVars, poolVars, kind, searching, exit, cv, wpc, mk, stop, nodes, ndebug, aborted, hist>>

\* std::condition_variable::wait may return without a notification.
SpuriousWakeup(p, t) ==
  /\ ~aborted
  /\ p \in cv[t]
  /\ cv' = [cv EXCEPT ![t] = @ \ {p}]
  /\ UNCHANGED <<thinkVars, histVars, soloVars, gbt, ioVars, sessVars, poolVars, kind, searching, exit, mutex, wpc, call, mk, stop, nodes, ndebug, aborted, hist>>

\* ------------------------------------------------------------ Thread::~Thread()
\* thread.cpp:48  assert(!searching): read without the lock; aborts the process in
\* a build that keeps assertions, is no code at all under -DNDEBUG.
D_assert(p) ==
  LET t == call[p].t IN
  /\ InCall(p, "dtor", "assert")
  /\ IF searching[t] /\ ~ndebug
       THEN aborted' = TRUE /\ call' = call
       ELSE aborted' = aborted /\ Goto(p, "exit")
  /\ hist' = [hist EXCEPT !.dtorSawSearching[t] = searching[t]]
  /\ UNCHANGED <<thinkVars, histVars, soloVars, gbt, ioVars, sessVars, poolVars, objVars, wpc, mk, stop, nodes, ndebug>>

\* Mutant of D_exit: the exit request is forgotten.
D_exit_Forgotten(p) ==
  /\ InCall(p, "dtor", "exit")
  /\ call' = [call EXCEPT ![p] = Frame("start_searching", call[p].t, "lock", "dtor")]
  /\ UNCHANGED <<thinkVars, histVars, soloVars, gbt, ioVars, sessVars, poolVars, objVars, wpc, mk, stop, nodes, ndebug, aborted, hist>>

\* thread.cpp:50-51  exit = true (no lock is held), then start_searching()
D_exit(p) ==
  LET t == call[p].t IN
  /\ InCall(p, "dtor", "exit")
  /\ exit' = [exit EXCEPT ![t] = TRUE]
  /\ call' = [call EXCEPT ![p] = Frame("start_searching", t, "lock", "dtor")]
  /\ UNCHANGED <<thinkVars, histVars, soloVars, gbt, ioVars, sessVars, poolVars, kind, searching, mutex, cv, wpc, mk, stop, nodes, ndebug, aborted, hist>>

\* thread.cpp:52  stdThread.join(): returns once idle_loop() has returned; the
\* object is gone when the destructor returns.
D_join(p) ==
  LET t == call[p].t IN
  /\ InCall(p, "dtor", "join")
  /\ wpc[t] = "done"
  /\ wpc' = [wpc EXCEPT ![t] = "none"]
  /\ kind' = [kind EXCEPT ![t] = "None"]
  /\ call' = [call EXCEPT ![p] = NoCall]
  /\ UNCHANGED <<thinkVars, histVars, soloVars, gbt, ioVars, sessVars, poolVars, searching, exit, mutex, cv, mk, stop, nodes, ndebug, aborted, hist>>

\* Mutant of C_launch: the constructor returns without waiting for the worker.
C_launch_NoWait(p) ==
  LET t == call[p].t IN
  /\ InCall(p, "ctor", "launch")
  /\ kind' = [kind EXCEPT ![t] = call[p].ret]
  /\ searching' = [searching EXCEPT ![t] = TRUE]
  /\ exit' = [exit EXCEPT ![t] = FALSE]
  /\ mutex' = [mutex EXCEPT ![t] = Free]
  /\ cv' = [cv EXCEPT ![t] = {}]
  /\ wpc' = [wpc EXCEPT ![t] = "start"]
  /\ nodes' = [nodes EXCEPT ![t] = 0]
  /\ wstat' = [wstat EXCEPT ![t] = Fresh(<<>>)]
  /\ hist' = [hist EXCEPT !.pending[t] = 0, !.dtorSawSearching[t] = FALSE]
  /\ call' = [call EXCEPT ![p] = NoCall]
  /\ UNCHANGED <<go, histVars, soloVars, gbt, ioVars, sessVars, poolVars, mk, stop, ndebug, aborted>>

\* ------------------------------------------------------------- Thread::Thread()
\* Members are initialized in the order thread.h declares them, whatever the
\* order of the initializer list (thread.cpp:37): mutex, cv, idx, exit = false,
\* searching = true, then stdThread, which launches the worker thread on
\* idle_loop(), ...
C_launch(p) ==
  LET t == call[p].t IN
  /\ InCall(p, "ctor", "launch")
  /\ kind' = [kind EXCEPT ![t] = call[p].ret]
  /\ searching' = [searching EXCEPT ![t] = TRUE]
  /\ exit' = [exit EXCEPT ![t] = FALSE]
  /\ mutex' = [mutex EXCEPT ![t] = Free]
  /\ cv' = [cv EXCEPT ![t] = {}]
  /\ wpc' = [wpc EXCEPT ![t] = "start"]
  /\ nodes' = [nodes EXCEPT ![t] = 0]
  /\ wstat' = [wstat EXCEPT ![t] = Fresh(<<>>)]
  /\ hist' = [hist EXCEPT !.pending[t] = 0, !.dtorSawSearching[t] = FALSE]
  /\ call' = [call EXCEPT ![p] = Frame("ctor", t, "members", call[p].ret)]
  /\ UNCHANGED <<go, histVars, soloVars, gbt, ioVars, sessVars, poolVars, mk, stop, ndebug, aborted>>

\* ... then _threads (declared after stdThread) and rootPos; the body is
\* wait_for_search_finished() (thread.cpp:39).
C_members(p) ==
  /\ InCall(p, "ctor", "members")
  /\ call' = [call EXCEPT ![p] = Frame("wait_for_search_finished", call[p].t, "lock", "")]
  /\ UNCHANGED <<thinkVars, histVars, soloVars, gbt, ioVars, sessVars, poolVars, objVars, wpc, mk, stop, nodes, ndebug, aborted, hist>>

\* Thread::_threads of the object with idx i holds the pool's address: its
\* constructor is past the member's initializer.
threads_initialized(i) ==
  ~\E p \in Callers : call[p].op = "ctor" /\ call[p].t = i /\ call[p].pc = "members"

\* ----------------------------------------------------------- Thread::idle_loop()
\* thread.cpp:102-103  read the Threads option through _threads, bind the thread.
\* Reading _threads before the constructor has written it is a data race on an
\* uninitialized pointer: the worker goes on (the bytes happen to be the pool's
\* address) or the process dies dereferencing it.
IL_bind(i) ==
  /\ AtW(i, "start")
  /\ \/ /\ wpc' = [wpc EXCEPT ![i] = "lock"]
        /\ aborted' = aborted
     \/ /\ ~threads_initialized(i)
        /\ aborted' = TRUE
        /\ wpc' = [wpc EXCEPT ![i] = "fault"]
  /\ UNCHANGED <<thinkVars, histVars, soloVars, gbt, ioVars, sessVars, poolVars, objVars, call, mk, stop, nodes, ndebug, hist>>

\* thread.cpp:107  std::unique_lock<std::mutex> lk(mutex)
IL_lock(i) ==
  /\ AtW(i, "lock")
  /\ mutex[i] = Free
  /\ mutex' = [mutex EXCEPT ![i] = i]
  /\ wpc' = [wpc EXCEPT ![i] = "setidle"]
  /\ UNCHANGED <<thinkVars, histVars, soloVars, gbt, ioVars, sessVars, poolVars, kind, searching, exit, cv, call, mk, stop, nodes, ndebug, aborted, hist>>

\* Mutant of IL_setidle: nobody is notified.
IL_setidle_Silent(i) ==
  /\ AtW(i, "setidle")
  /\ searching' = [searching EXCEPT ![i] = FALSE]
  /\ wpc' = [wpc EXCEPT ![i] = "wait"]
  /\ UNCHANGED <<thinkVars, histVars, soloVars, gbt, ioVars, sessVars, poolVars, kind, exit, mutex, cv, call, mk, stop, nodes, ndebug, aborted, hist>>

\* thread.cpp:108-109  searching = false; cv.notify_one()
IL_setidle(i) ==
  /\ AtW(i, "setidle")
  /\ searching' = [searching EXCEPT ![i] = FALSE]
  /\ \E S \in NotifyOne(cv[i]) : cv' = [cv EXCEPT ![i] = S]
  /\ wpc' = [wpc EXCEPT ![i] = "wait"]
  /\ UNCHANGED <<thinkVars, histVars, soloVars, gbt, ioVars, sessVars, poolVars, kind, exit, mutex, call, mk, stop, nodes, ndebug, aborted, hist>>

\* thread.cpp:110  cv.wait(lk, [&]{ return searching; })
IL_wait(i) ==
  /\ AtW(i, "wait")
  /\ IF searching[i]
       THEN /\ wpc' = [wpc EXCEPT ![i] = "exitchk"]
            /\ UNCHANGED <<mutex, cv>>
       ELSE /\ mutex' = [mutex EXCEPT ![i] = Free]
            /\ cv' = [cv EXCEPT ![i] = @ \cup {i}]
            /\ wpc' = [wpc EXCEPT ![i] = "blocked"]
  /\ UNCHANGED <<thinkVars, histVars, soloVars, gbt, ioVars, sessVars, poolVars, kind, searching, exit, call, mk, stop, nodes, ndebug, aborted, hist>>

\* thread.cpp:110  the woken worker re-acquires the lock and tests the predicate again
IL_wake(i) ==
  /\ AtW(i, "blocked")
  /\ i \notin cv[i]
  /\ mutex[i] = Free
  /\ mutex' = [mutex EXCEPT ![i] = i]
  /\ wpc' = [wpc EXCEPT ![i] = "wait"]
  /\ UNCHANGED <<thinkVars, histVars, soloVars, gbt, ioVars, sessVars, poolVars, kind, searching, exit, cv, call, mk, stop, nodes, ndebug, aborted, hist>>

\* thread.cpp:112-117  if (exit) return (lk's destructor unlocks); else
\* lk.unlock() and search(): virtual, MainThread::search() for the main thread,
\* which begins with the pool's start_searching().
IL_exitchk(i) ==
  /\ AtW(i, "exitchk")
  /\ mutex' = [mutex EXCEPT ![i] = Free]
  /\ IF exit[i]
       THEN /\ wpc' = [wpc EXCEPT ![i] = "done"]
            /\ UNCHANGED <<mk, hist>>
       ELSE /\ wpc' = [wpc EXCEPT ![i] = IF kind[i] = "Main" THEN "pool_ss" ELSE "run"]
            /\ mk' = IF kind[i] = "Main" THEN 0 ELSE mk
            /\ hist' = [hist EXCEPT !.pending[i] = @ - 1,
                                    !.sets = IF kind[i] = "Main" THEN [s \in Slots |-> 0] ELSE @]
  /\ UNCHANGED <<thinkVars, histVars, soloVars, gbt, ioVars, sessVars, poolVars, kind, searching, exit, cv, call, stop, nodes, ndebug, aborted>>

\* ------------------------------------------------------------- Thread::search()
\* The search algorithm (an external collaborator): it counts the nodes it visits
\* and returns when it is done or has seen the stop flag.
SearchWork(i) ==
  /\ AtW(i, "run")
  /\ nodes[i] < MaxNodes
  /\ nodes' = [nodes EXCEPT ![i] = @ + 1]
  /\ wstat' = [wstat EXCEPT ![i] = Touched(@.rootMoves)]
  /\ UNCHANGED <<go, histVars, soloVars, gbt, ioVars, sessVars, poolVars, objVars, wpc, call, mk, stop, ndebug, aborted, hist>>

SearchDone(i) ==
  /\ AtW(i, "run")
  /\ wpc' = [wpc EXCEPT ![i] = IF kind[i] = "Main" THEN "m_stop" ELSE "lock"]
  /\ UNCHANGED <<thinkVars, histVars, soloVars, gbt, ioVars, sessVars, poolVars, objVars, call, mk, stop, nodes, ndebug, aborted, hist>>

\* ================================================================= ThreadPool
\* Mutant of ThreadPool_start_searching: threads.front() is not skipped.
ThreadPool_start_searching_All ==
  /\ AtW(0, "pool_ss")
  /\ IF mk < Len(threads)
       THEN /\ mk' = mk + 1
            /\ wpc' = wpc
            /\ call' = [call EXCEPT ![0] = Frame("start_searching", mk, "lock", "")]
       ELSE /\ mk' = 0
            /\ wpc' = [wpc EXCEPT ![0] = "run"]
            /\ call' = call
  /\ UNCHANGED <<thinkVars, histVars, soloVars, gbt, ioVars, sessVars, poolVars, objVars, stop, nodes, ndebug, aborted, hist>>

\* thread.cpp:251-256  ThreadPool::start_searching(): for every thread but
\* threads.front(), th->start_searching().  Run by the main thread (process 0).
ThreadPool_start_searching ==
  /\ AtW(0, "pool_ss")
  /\ IF mk < Len(threads)
       THEN /\ mk' = mk + 1
            /\ wpc' = wpc
            /\ call' = IF mk # 0
                         THEN [call EXCEPT ![0] = Frame("start_searching", mk, "lock", "")]
                         ELSE call
       ELSE /\ mk' = 0
            /\ wpc' = [wpc EXCEPT ![0] = "run"]
            /\ call' = call
  /\ UNCHANGED <<thinkVars, histVars, soloVars, gbt, ioVars, sessVars, poolVars, objVars, stop, nodes, ndebug, aborted, hist>>

\* Mutant of ThreadPool_wait_for_search_finished: the last thread is not waited for.
ThreadPool_wait_for_search_finished_ButLast ==
  /\ AtW(0, "pool_wait")
  /\ IF mk < Len(threads) - 1
       THEN /\ mk' = mk + 1
            /\ wpc' = wpc
            /\ call' = IF mk # 0
                         THEN [call EXCEPT ![0] = Frame("wait_for_search_finished", mk, "lock", "")]
                         ELSE call
       ELSE /\ mk' = 0
            /\ wpc' = [wpc EXCEPT ![0] = "m_best"]
            /\ call' = call
  /\ UNCHANGED <<thinkVars, histVars, soloVars, gbt, ioVars, sessVars, poolVars, objVars, stop, nodes, ndebug, aborted, hist>>

\* thread.cpp:261-266  ThreadPool::wait_for_search_finished(): for every thread but
\* threads.front(), th->wait_for_search_finished().
ThreadPool_wait_for_search_finished ==
  /\ AtW(0, "pool_wait")
  /\ IF mk < Len(threads)
       THEN /\ mk' = mk + 1
            /\ wpc' = wpc
            /\ call' = IF mk # 0
                         THEN [call EXCEPT ![0] = Frame("wait_for_search_finished", mk, "lock", "")]
                         ELSE call
       ELSE /\ mk' = 0
            /\ wpc' = [wpc EXCEPT ![0] = "m_best"]
            /\ call' = call
  /\ UNCHANGED <<thinkVars, histVars, soloVars, gbt, ioVars, sessVars, poolVars, objVars, stop, nodes, ndebug, aborted, hist>>

\* ----------------------------------------------------------- MainThread::search()
\* After its own search the main thread sets the pool-wide stop flag, then waits
\* for the other workers.
M_stop ==
  /\ AtW(0, "m_stop")
  /\ stop' = TRUE
  /\ mk' = 0
  /\ wpc' = [wpc EXCEPT ![0] = "pool_wait"]
  /\ hist' = [hist EXCEPT !.seenIdle = [s \in Slots |-> FALSE]]
  /\ UNCHANGED <<thinkVars, histVars, soloVars, gbt, ioVars, sessVars, poolVars, objVars, call, nodes, ndebug, aborted>>

\* It then selects the best thread and emits the result; search() returns.
\* History: the answers emitted since start_thinking() last woke the main thread.
M_best ==
  /\ AtW(0, "m_best")
  /\ wpc' = [wpc EXCEPT ![0] = "lock"]
  /\ hist' = [hist EXCEPT !.answers = @ + 1]
  /\ UNCHANGED <<thinkVars, histVars, soloVars, gbt, ioVars, sessVars, poolVars, objVars, call, mk, stop, nodes, ndebug, aborted>>

\* ------------------------------------------------------------------ cancellation
\* A stop request of the command loop, between two commands: it only sets the flag.
Stop_request ==
  /\ AtU("idle")
  /\ ~stop
  /\ stop' = TRUE
  /\ UNCHANGED <<thinkVars, histVars, soloVars, gbt, ioVars, sessVars, poolVars, objVars, wpc, call, mk, nodes, ndebug, aborted, hist>>

\* MainThread::check_time(), called from the main thread's search: time is up.
Check_time ==
  /\ AtW(0, "run")
  /\ kind[0] = "Main"
  /\ ~stop
  /\ stop' = TRUE
  /\ UNCHANGED <<thinkVars, histVars, soloVars, gbt, ioVars, sessVars, poolVars, objVars, wpc, call, mk, nodes, ndebug, aborted, hist>>

\* A search that ends only by cancellation: a worker other than the main
\* thread polls the flag and returns from search() once it reads it set; the
\* main thread may also finish on its own.
SearchPolled(i) ==
  /\ stop \/ kind[i] = "Main"
  /\ SearchDone(i)

\* ------------------------------------------------------------- ThreadPool::set()
\* Mutant of ThreadPool_set: the wait on the main thread is left out.
ThreadPool_set_NoWait(n) ==
  /\ AtU("idle")
  /\ requested' = n
  /\ upc' = IF Len(threads) > 0 THEN "set_pop" ELSE "set_new"
  /\ UNCHANGED <<thinkVars, histVars, soloVars, gbt, ioVars, sessVars, threads, uk, objVars, wpc, call, mk, stop, nodes, ndebug, aborted, hist>>

\* thread.cpp:127-129  if (threads.size() > 0) main()->wait_for_search_finished()
ThreadPool_set(n) ==
  /\ AtU("idle")
  /\ requested' = n
  /\ IF Len(threads) > 0
       THEN /\ call' = [call EXCEPT ![Uci] = Frame("wait_for_search_finished", 0, "lock", "")]
            /\ upc' = "set_pop"
       ELSE /\ call' = call
            /\ upc' = "set_new"
  /\ UNCHANGED <<thinkVars, histVars, soloVars, gbt, ioVars, sessVars, threads, uk, objVars, wpc, mk, stop, nodes, ndebug, aborted, hist>>

\* Mutant of Set_pop: the loop stops at one thread.
Set_pop_KeepOne ==
  /\ AtU("set_pop")
  /\ IF Len(threads) > 1
       THEN /\ call' = [call EXCEPT ![Uci] = Frame("dtor", Len(threads) - 1, "assert", "")]
            /\ upc' = "set_popped"
       ELSE /\ call' = call
            /\ upc' = "set_new"
  /\ UNCHANGED <<thinkVars, histVars, soloVars, gbt, ioVars, sessVars, threads, requested, uk, objVars, wpc, mk, stop, nodes, ndebug, aborted, hist>>

\* thread.cpp:131-132  while (threads.size() > 0) threads.pop_back(): the last
\* slot's Thread object is destroyed (~Thread) ...
Set_pop ==
  /\ AtU("set_pop")
  /\ IF Len(threads) > 0
       THEN /\ call' = [call EXCEPT ![Uci] = Frame("dtor", Len(threads) - 1, "assert", "")]
            /\ upc' = "set_popped"
       ELSE /\ call' = call
            /\ upc' = "set_new"
  /\ UNCHANGED <<thinkVars, histVars, soloVars, gbt, ioVars, sessVars, threads, requested, uk, objVars, wpc, mk, stop, nodes, ndebug, aborted, hist>>

\* ... and the slot removed from the vector.
Set_popped ==
  /\ AtU("set_popped")
  /\ threads' = SubSeq(threads, 1, Len(threads) - 1)
  /\ upc' = "set_pop"
  /\ UNCHANGED <<thinkVars, histVars, soloVars, gbt, ioVars, sessVars, requested, uk, objVars, wpc, call, mk, stop, nodes, ndebug, aborted, hist>>

\* thread.cpp:135-137  if (requested > 0) threads.push_back(make_unique<MainThread>(this, 0))
Set_new ==
  /\ AtU("set_new")
  /\ IF requested > 0
       THEN /\ call' = [call EXCEPT ![Uci] = Frame("ctor", 0, "launch", "Main")]
            /\ upc' = "set_push"
       ELSE /\ call' = call
            /\ upc' = "idle"
  /\ UNCHANGED <<thinkVars, histVars, soloVars, gbt, ioVars, sessVars, threads, requested, uk, objVars, wpc, mk, stop, nodes, ndebug, aborted, hist>>

\* push_back of the object just constructed (its idx is the vector's size)
Set_push ==
  /\ AtU("set_push")
  /\ threads' = Append(threads, kind[Len(threads)])
  /\ upc' = "set_more"
  /\ UNCHANGED <<thinkVars, histVars, soloVars, gbt, ioVars, sessVars, requested, uk, objVars, wpc, call, mk, stop, nodes, ndebug, aborted, hist>>

\* thread.cpp:139-148  while (threads.size() < requested)
\*   threads.push_back(make_unique<Thread>(this, threads.size()));
\* then clear(), _tt->resize(), _search->init(), none of which touches the state
\* modelled here.
Set_more ==
  /\ AtU("set_more")
  /\ IF Len(threads) < requested
       THEN /\ call' = [call EXCEPT ![Uci] = Frame("ctor", Len(threads), "launch", "Plain")]
            /\ upc' = "set_push"
       ELSE /\ call' = call
            /\ upc' = "idle"
  /\ UNCHANGED <<thinkVars, histVars, soloVars, gbt, ioVars, sessVars, threads, requested, uk, objVars, wpc, mk, stop, nodes, ndebug, aborted, hist>>

\* -------------------------------------------------- ThreadPool::start_thinking()
\* Mutant of ThreadPool_start_thinking: the wait on the main thread is left out.
ThreadPool_start_thinking_NoWait(h, g) ==
  /\ AtU("idle")
  /\ Len(threads) > 0
  /\ states' = h
  /\ go' = g
  /\ hist' = [hist EXCEPT !.given = h, !.ranked = 0]
  /\ upc' = "st_flags"
  /\ UNCHANGED <<wstat, setupStates, soloVars, gbt, ioVars, sessVars, threads, requested, uk, objVars, wpc, call, mk, stop, nodes, ndebug, aborted>>

\* thread.cpp:169-172  start_thinking(pos, states, limits, ponderMode) called with
\* the caller's handle h, on a pool that has a main thread; it begins with
\* main()->wait_for_search_finished().  History: the handle the call was given.
ThreadPool_start_thinking(h, g) ==
  /\ AtU("idle")
  /\ Len(threads) > 0
  /\ states' = h
  /\ go' = g
  /\ hist' = [hist EXCEPT !.given = h, !.ranked = 0]
  /\ call' = [call EXCEPT ![Uci] = Frame("wait_for_search_finished", 0, "lock", "")]
  /\ upc' = "st_flags"
  /\ UNCHANGED <<wstat, setupStates, soloVars, gbt, ioVars, sessVars, threads, requested, uk, objVars, wpc, mk, stop, nodes, ndebug, aborted>>

\* Mutant of ST_flags: rank_root_moves() is called on an empty list too.
ST_flags_AlwaysRank ==
  /\ AtU("st_flags")
  /\ stop' = FALSE
  /\ LET rootMoves == Allowed(go.legal, go.searchmoves) IN
       IF TRUE
         THEN /\ \E rm \in Ranked(rootMoves) : go' = [go EXCEPT !.rootMoves = rm]
              /\ hist' = [hist EXCEPT !.ranked = @ + 1]
         ELSE /\ go' = [go EXCEPT !.rootMoves = rootMoves]
              /\ hist' = hist
  /\ IF ~ndebug /\ states = Null /\ setupStates = Null
       THEN /\ aborted' = TRUE
            /\ UNCHANGED <<uk, upc, histVars>>
       ELSE /\ aborted' = aborted
            /\ setupStates' = IF states # Null THEN states ELSE setupStates
            /\ states' = Null
            /\ uk' = 0
            /\ upc' = "st_reset"
  /\ UNCHANGED <<wstat, soloVars, gbt, ioVars, sessVars, threads, requested, objVars, wpc, call, mk, nodes, ndebug>>

\* Mutant of ST_flags: the handle is copied, not moved.
ST_flags_Copy ==
  /\ AtU("st_flags")
  /\ stop' = FALSE
  /\ LET rootMoves == Allowed(go.legal, go.searchmoves) IN
       IF rootMoves # <<>>
         THEN /\ \E rm \in Ranked(rootMoves) : go' = [go EXCEPT !.rootMoves = rm]
              /\ hist' = [hist EXCEPT !.ranked = @ + 1]
         ELSE /\ go' = [go EXCEPT !.rootMoves = rootMoves]
              /\ hist' = hist
  /\ IF ~ndebug /\ states = Null /\ setupStates = Null
       THEN /\ aborted' = TRUE
            /\ UNCHANGED <<uk, upc, histVars>>
       ELSE /\ aborted' = aborted
            /\ setupStates' = IF states # Null THEN states ELSE setupStates
            /\ states' = states
            /\ uk' = 0
            /\ upc' = "st_reset"
  /\ UNCHANGED <<wstat, soloVars, gbt, ioVars, sessVars, threads, requested, objVars, wpc, call, mk, nodes, ndebug>>

\* thread.cpp:174-193  stopOnPonderhit = stop = false, limits; the root moves are
\* the allowed legal moves and, if there are any, _tb->rank_root_moves() is
\* called on them (history: the calls are counted);
\* assert(states.get() || setupStates.get()), compiled out under NDEBUG;
\* if (states.get()) setupStates = std::move(states)
ST_flags ==
  /\ AtU("st_flags")
  /\ stop' = FALSE
  /\ LET rootMoves == Allowed(go.legal, go.searchmoves) IN
       IF rootMoves # <<>>
         THEN /\ \E rm \in Ranked(rootMoves) : go' = [go EXCEPT !.rootMoves = rm]
              /\ hist' = [hist EXCEPT !.ranked = @ + 1]
         ELSE /\ go' = [go EXCEPT !.rootMoves = rootMoves]
              /\ hist' = hist
  /\ IF ~ndebug /\ states = Null /\ setupStates = Null
       THEN /\ aborted' = TRUE
            /\ UNCHANGED <<uk, upc, histVars>>
       ELSE /\ aborted' = aborted
            /\ setupStates' = IF states # Null THEN states ELSE setupStates
            /\ states' = Null
            /\ uk' = 0
            /\ upc' = "st_reset"
  /\ UNCHANGED <<wstat, soloVars, gbt, ioVars, sessVars, threads, requested, objVars, wpc, call, mk, nodes, ndebug>>

\* Mutant of ST_reset: completedDepth is not reset.
ST_reset_KeepDepth ==
  /\ AtU("st_reset")
  /\ \/ /\ aborted' = aborted
        /\ IF uk < Len(threads)
             THEN /\ nodes' = [nodes EXCEPT ![uk] = 0]
                  /\ wstat' = [wstat EXCEPT ![uk] = [Fresh(go.rootMoves) EXCEPT
                                                    !.completedDepth = wstat[uk].completedDepth]]
                  /\ uk' = uk + 1
                  /\ upc' = upc
             ELSE /\ nodes' = nodes
                  /\ wstat' = wstat
                  /\ uk' = 0
                  /\ upc' = "st_wake"
     \/ /\ uk < Len(threads)
        /\ setupStates = Null
        /\ aborted' = TRUE
        /\ UNCHANGED <<nodes, wstat, uk, upc>>
  /\ UNCHANGED <<go, histVars, soloVars, gbt, ioVars, sessVars, threads, requested, objVars, wpc, call, mk, stop, ndebug, hist>>

\* thread.cpp:200-207  for every thread: nodes = tbHits = ... = 0, rootMoves, rootPos,
\* rootState = setupStates->back().  Dereferencing an empty setupStates is
\* undefined: the process crashes, or goes on with whatever it read.
ST_reset ==
  /\ AtU("st_reset")
  /\ \/ /\ aborted' = aborted
        /\ IF uk < Len(threads)
             THEN /\ nodes' = [nodes EXCEPT ![uk] = 0]
                  /\ wstat' = [wstat EXCEPT ![uk] = Fresh(go.rootMoves)]
                  /\ uk' = uk + 1
                  /\ upc' = upc
             ELSE /\ nodes' = nodes
                  /\ wstat' = wstat
                  /\ uk' = 0
                  /\ upc' = "st_wake"
     \/ /\ uk < Len(threads)
        /\ setupStates = Null
        /\ aborted' = TRUE
        /\ UNCHANGED <<nodes, wstat, uk, upc>>
  /\ UNCHANGED <<go, histVars, soloVars, gbt, ioVars, sessVars, threads, requested, objVars, wpc, call, mk, stop, ndebug, hist>>

\* Mutant of ST_wake: threads.back() is woken instead of main().
ST_wake_Last ==
  /\ AtU("st_wake")
  /\ call' = [call EXCEPT ![Uci] = Frame("start_searching", Len(threads) - 1, "lock", "")]
  /\ upc' = "idle"
  /\ go' = NoGo
  /\ hist' = [hist EXCEPT !.given = NoCall.op, !.answers = 0]
  /\ UNCHANGED <<wstat, histVars, soloVars, gbt, ioVars, sessVars, threads, requested, uk, objVars, wpc, mk, stop, nodes, ndebug, aborted>>

\* thread.cpp:209  main()->start_searching()
ST_wake ==
  /\ AtU("st_wake")
  /\ call' = [call EXCEPT ![Uci] = Frame("start_searching", 0, "lock", "")]
  /\ upc' = "idle"
  /\ go' = NoGo
  /\ hist' = [hist EXCEPT !.given = NoCall.op, !.answers = 0]
  /\ UNCHANGED <<wstat, histVars, soloVars, gbt, ioVars, sessVars, threads, requested, uk, objVars, wpc, mk, stop, nodes, ndebug, aborted>>

\* ======================================================= a client of class Thread
\* Thread's constructor, destructor, start_searching() and
\* wait_for_search_finished() are public: a client (a test) may call them on an
\* object of its own, here the one with idx 0, in any order.
Api_create ==
  /\ AtU("idle")
  /\ kind[0] = "None"
  /\ call' = [call EXCEPT ![Uci] = Frame("ctor", 0, "launch", "Plain")]
  /\ UNCHANGED <<thinkVars, histVars, soloVars, gbt, ioVars, sessVars, poolVars, objVars, wpc, mk, stop, nodes, ndebug, aborted, hist>>

Api_start_searching ==
  /\ AtU("idle")
  /\ kind[0] # "None"
  /\ call' = [call EXCEPT ![Uci] = Frame("start_searching", 0, "lock", "")]
  /\ UNCHANGED <<thinkVars, histVars, soloVars, gbt, ioVars, sessVars, poolVars, objVars, wpc, mk, stop, nodes, ndebug, aborted, hist>>

Api_wait_for_search_finished ==
  /\ AtU("idle")
  /\ kind[0] # "None"
  /\ call' = [call EXCEPT ![Uci] = Frame("wait_for_search_finished", 0, "lock", "")]
  /\ UNCHANGED <<thinkVars, histVars, soloVars, gbt, ioVars, sessVars, poolVars, objVars, wpc, mk, stop, nodes, ndebug, aborted, hist>>

Api_destroy ==
  /\ AtU("idle")
  /\ kind[0] # "None"
  /\ call' = [call EXCEPT ![Uci] = Frame("dtor", 0, "assert", "")]
  /\ UNCHANGED <<thinkVars, histVars, soloVars, gbt, ioVars, sessVars, poolVars, objVars, wpc, mk, stop, nodes, ndebug, aborted, hist>>


\* ------------------------------------------------- two clients of one Thread
\* Two threads (the command loop's and the one of slot 0, which has no Thread
\* object of its own here) share the Thread object with idx 1, built by the first.
Waiters == {Uci, 0}

Client_create ==
  /\ AtU("idle")
  /\ kind[1] = "None"
  /\ call' = [call EXCEPT ![Uci] = Frame("ctor", 1, "launch", "Plain")]
  /\ upc' = "ctor"
  /\ UNCHANGED <<thinkVars, histVars, soloVars, gbt, ioVars, sessVars, threads, requested, uk, objVars, wpc, mk, stop, nodes, ndebug, aborted, hist>>

\* the constructor has returned: the object is handed to the clients
Client_created ==
  /\ AtU("ctor")
  /\ upc' = "client"
  /\ UNCHANGED <<thinkVars, histVars, soloVars, gbt, ioVars, sessVars, threads, requested, uk, objVars, wpc, call, mk, stop, nodes, ndebug, aborted, hist>>

Client_start_searching(p) ==
  /\ ~aborted
  /\ upc = "client"
  /\ call[p] = NoCall
  /\ call' = [call EXCEPT ![p] = Frame("start_searching", 1, "lock", "")]
  /\ UNCHANGED <<thinkVars, histVars, soloVars, gbt, ioVars, sessVars, poolVars, objVars, wpc, mk, stop, nodes, ndebug, aborted, hist>>

Client_wait_for_search_finished(p) ==
  /\ ~aborted
  /\ upc = "client"
  /\ call[p] = NoCall
  /\ call' = [call EXCEPT ![p] = Frame("wait_for_search_finished", 1, "lock", "")]
  /\ UNCHANGED <<thinkVars, histVars, soloVars, gbt, ioVars, sessVars, poolVars, objVars, wpc, mk, stop, nodes, ndebug, aborted, hist>>

\* ============================================================ engine sessions
\* stockfish_thread_wrapper(pipe_in, pipe_out, argc, argv), run by one thread per
\* session.  Two translation units define it: part_000 and part_001.
MaxSessions == 2     \* sessions the supervisor launches
MaxOptions == 3      \* options UCI::init registers (a prefix of its list)
MaxUci == 1          \* "uci" commands a session is fed
HashValues == {16, 32}

Sessions == 1 .. MaxSessions
NoSession == 0
NoStatus == -1                     \* the runner has not returned
Units == {"part_000", "part_001"}

\* UCI::init's options in registration order, with their defaults
OptionNames == <<"Debug Log File", "Threads", "Hash", "Clear Hash", "Ponder">>
OptionDefault == <<0, 1, 16, 0, 0>>
NoOption == <<NoSession, "">>

At(s, pc) == ~aborted /\ sess[s].pc = pc

\* A line of output and the session whose thread produced it
Line(s, what) == [by |-> s, what |-> what]

\* Where *io.out() of session s writes: part_000's ThreadIoStreams wraps the
\* session's own fout (line 66), part_001's wraps std::cout (line 49), whose
\* lines go where its rdbuf points.
IoTarget(s) == IF unit = "part_000" THEN s ELSE cout_rdbuf

\* The pipes and the console after a line is written to stream `target`
\* (a session's pipe, or NoSession for the console)
OutAfter(target, l) ==
  IF target = NoSession THEN out ELSE [out EXCEPT ![target] = Append(@, l)]
ConsoleAfter(target, l) ==
  IF target = NoSession THEN console \cup {l} ELSE console
SGoto(s, pc) == sess' = [sess EXCEPT ![s].pc = pc]

\* thread_main: the session's thread enters stockfish_thread_wrapper and
\* constructs the session's objects (Options, threads, TT, Time, tune, ...)
Session_start(s) ==
  /\ At(s, "none")
  /\ SGoto(s, "lock")
  /\ console' = console \cup {Line(s, "Hello from thread!")}     \* part_000:117 printf
  /\ UNCHANGED <<out, cout_rdbuf>>
  /\ UNCHANGED <<soloVars, gbt, ioVars, poolState, ndebug, aborted, unit, tuned, mtx, bitboards_initialized,
                 options_initialized, initCalls, insert_order, LastOption, TT, Options>>

\* Mutant of W_lock: the lock does not exclude other sessions.
W_lock_NoExclusion(s) ==
  /\ At(s, "lock")
  /\ mtx' = s
  /\ SGoto(s, IF unit = "part_000" THEN "bitboards" ELSE "banner")
  /\ cout_rdbuf' = IF unit = "part_001" THEN s ELSE cout_rdbuf
  /\ UNCHANGED <<out, console>>
  /\ UNCHANGED <<soloVars, gbt, ioVars, poolState, ndebug, aborted, unit, tuned, bitboards_initialized,
                 options_initialized, initCalls, insert_order, LastOption, TT, Options>>

\* part_000:82 std::unique_lock lock(mtx) / part_001:67 std::lock_guard lock(mtx);
\* part_001:72-83 then points std::cin and std::cout at the session's pipes
W_lock(s) ==
  /\ At(s, "lock")
  /\ mtx = NoSession
  /\ mtx' = s
  /\ SGoto(s, IF unit = "part_000" THEN "bitboards" ELSE "banner")
  /\ cout_rdbuf' = IF unit = "part_001" THEN s ELSE cout_rdbuf
  /\ UNCHANGED <<out, console>>
  /\ UNCHANGED <<soloVars, gbt, ioVars, poolState, ndebug, aborted, unit, tuned, bitboards_initialized,
                 options_initialized, initCalls, insert_order, LastOption, TT, Options>>

\* Mutant of W_bitboards: the flag is set but Bitboards::init() is not run.
W_bitboards_Skipped(s) ==
  /\ At(s, "bitboards")
  /\ IF unit = "part_000"
       THEN /\ initCalls' = initCalls
            /\ bitboards_initialized' = TRUE
            /\ SGoto(s, "unlock")
       ELSE /\ initCalls' = initCalls + 1
            /\ UNCHANGED bitboards_initialized
            /\ SGoto(s, "tune")
  /\ UNCHANGED <<soloVars, gbt, ioVars, pipeVars, poolState, ndebug, aborted, unit, tuned, mtx, options_initialized,
                 insert_order, LastOption, TT, Options>>

\* part_000:82-86  if (!bitboards_initialized) Bitboards::init();
\*                 bitboards_initialized = true;      (mtx held)
\* part_001:99     Bitboards::init();
W_bitboards(s) ==
  /\ At(s, "bitboards")
  /\ IF unit = "part_000"
       THEN /\ initCalls' = IF bitboards_initialized THEN initCalls ELSE initCalls + 1
            /\ bitboards_initialized' = TRUE
            /\ SGoto(s, "unlock")
       ELSE /\ initCalls' = initCalls + 1
            /\ UNCHANGED bitboards_initialized
            /\ SGoto(s, "tune")
  /\ UNCHANGED <<soloVars, gbt, ioVars, pipeVars, poolState, ndebug, aborted, unit, tuned, mtx, options_initialized,
                 insert_order, LastOption, TT, Options>>

\* part_000:87 the scoped lock ends
W_unlock(s) ==
  /\ At(s, "unlock")
  /\ mtx' = NoSession
  /\ SGoto(s, "banner")
  /\ UNCHANGED <<soloVars, gbt, ioVars, pipeVars, poolState, ndebug, aborted, unit, tuned, bitboards_initialized,
                 options_initialized, initCalls, insert_order, LastOption, TT, Options>>

\* part_000:90 *io.out() << engine_info() / part_001:87 std::cout << engine_info();
\* cli.init
W_banner(s) ==
  /\ At(s, "banner")
  /\ SGoto(s, "options")
  /\ out' = OutAfter(IoTarget(s), Line(s, "banner"))
  /\ console' = ConsoleAfter(IoTarget(s), Line(s, "banner"))
  /\ UNCHANGED cout_rdbuf
  /\ UNCHANGED <<soloVars, gbt, ioVars, poolState, ndebug, aborted, unit, tuned, mtx, bitboards_initialized,
                 options_initialized, initCalls, insert_order, LastOption, TT, Options>>

\* part_000:92  UCI::init(Options, &threads);
\* part_001:92  if (!options_initialized) { UCI::init(Options, &threads); ... }
W_options(s) ==
  /\ At(s, "options")
  /\ IF unit = "part_000" \/ ~options_initialized
       THEN sess' = [sess EXCEPT ![s].pc = "uci_init", ![s].k = 1]
       ELSE SGoto(s, "bitboards")
  /\ UNCHANGED <<soloVars, gbt, ioVars, pipeVars, poolState, ndebug, aborted, unit, tuned, mtx, bitboards_initialized,
                 options_initialized, initCalls, insert_order, LastOption, TT, Options>>

\* The name and default of the option the session is about to register
InsertName(s) == IF sess[s].pc \in {"uci_init", "uci_init_w"}
                   THEN OptionNames[sess[s].k] ELSE "tuned"
InsertDefault(s) == IF sess[s].pc \in {"uci_init", "uci_init_w"}
                      THEN OptionDefault[sess[s].k] ELSE 0

\* Option::operator<<, first half of  idx = insert_order++ : the load of the
\* function-local static counter.  No lock is held in part_000; the load and the
\* store below are separate accesses, which concurrent sessions interleave.
Option_insert_load(s) ==
  /\ At(s, "uci_init") \/ At(s, "make_option")
  /\ sess' = [sess EXCEPT ![s].tmp = insert_order,
                          ![s].pc = IF sess[s].pc = "uci_init"
                                      THEN "uci_init_w" ELSE "make_option_w"]
  /\ UNCHANGED <<soloVars, gbt, ioVars, pipeVars, poolState, ndebug, aborted, unit, tuned, mtx, bitboards_initialized,
                 options_initialized, initCalls, insert_order, LastOption, TT, Options>>

\* Option::operator<<, second half: *this = o; the store of insert_order + 1 and
\* of idx.  UCI::init then goes on to its next option (part_001:94 sets
\* options_initialized after the last one); make_option goes on to LastOption.
Option_insert_store(s) ==
  /\ At(s, "uci_init_w") \/ At(s, "make_option_w")
  /\ Options' = [Options EXCEPT ![s] =
        [n \in DOMAIN Options[s] \cup {InsertName(s)} |->
           IF n = InsertName(s) THEN [idx |-> sess[s].tmp, value |-> InsertDefault(s)]
                                ELSE Options[s][n]]]
  /\ insert_order' = sess[s].tmp + 1
  /\ IF sess[s].pc = "make_option_w"
       THEN /\ SGoto(s, "last_option")
            /\ UNCHANGED options_initialized
       ELSE IF sess[s].k < MaxOptions
         THEN /\ sess' = [sess EXCEPT ![s].pc = "uci_init", ![s].k = @ + 1]
              /\ UNCHANGED options_initialized
         ELSE /\ SGoto(s, IF unit = "part_000" THEN "tune" ELSE "bitboards")
              /\ options_initialized' = (unit = "part_001" \/ options_initialized)
  /\ UNCHANGED <<soloVars, gbt, ioVars, pipeVars, poolState, ndebug, aborted, unit, tuned, mtx, bitboards_initialized,
                 initCalls, LastOption, TT>>

\* tune.init(): make_option for the build's tuned parameter, if it declares one
W_tune(s) ==
  /\ At(s, "tune")
  /\ SGoto(s, IF tuned THEN "make_option" ELSE "set")
  /\ UNCHANGED <<soloVars, gbt, ioVars, pipeVars, poolState, ndebug, aborted, unit, tuned, mtx, bitboards_initialized,
                 options_initialized, initCalls, insert_order, LastOption, TT, Options>>

\* make_option: LastOption = &(*options)[n];  (a namespace-scope pointer), then
\* part_004:79-84 std::cout << n << "," << v << ... << std::endl
Tune_LastOption(s) ==
  /\ At(s, "last_option")
  /\ LastOption' = <<s, "tuned">>
  /\ SGoto(s, "set")
  /\ out' = OutAfter(cout_rdbuf, Line(s, "tuned,0"))
  /\ console' = ConsoleAfter(cout_rdbuf, Line(s, "tuned,0"))
  /\ UNCHANGED cout_rdbuf
  /\ UNCHANGED <<soloVars, gbt, ioVars, poolState, ndebug, aborted, unit, tuned, mtx, bitboards_initialized,
                 options_initialized, initCalls, insert_order, TT, Options>>

\* Option::operator int() of Options[n]; OptionsMap::operator[] default-constructs
\* a missing entry, whose type is neither "check" nor "spin": the assert fails,
\* and without it the conversion yields (currentValue == "true"), that is 0.
OptionInt(s, n) == IF n \in DOMAIN Options[s] THEN Options[s][n].value ELSE 0

\* threads.set(size_t(Options["Threads"]))
W_set(s) ==
  /\ At(s, "set")
  /\ IF "Threads" \in DOMAIN Options[s] \/ ndebug
       THEN /\ sess' = [sess EXCEPT ![s].pc = "loop", ![s].pool = OptionInt(s, "Threads")]
            /\ UNCHANGED aborted
       ELSE /\ aborted' = TRUE
            /\ UNCHANGED sess
  /\ UNCHANGED <<soloVars, gbt, ioVars, pipeVars, poolState, ndebug, unit, tuned, mtx, bitboards_initialized,
                 options_initialized, initCalls, insert_order, LastOption, TT, Options>>

\* UCI::loop, "setoption name Hash value v": Option::operator= stores the value
\* and calls on_hash_size, which resizes TT (ucioption.cpp:41)
Cmd_setoption_Hash(s, v) ==
  /\ At(s, "loop")
  /\ "Hash" \in DOMAIN Options[s]
  /\ Options[s]["Hash"].value # v
  /\ Options' = [Options EXCEPT ![s]["Hash"].value = v]
  /\ TT' = v
  /\ UNCHANGED <<soloVars, gbt, ioVars, pipeVars, poolState, ndebug, aborted, unit, tuned, mtx, bitboards_initialized,
                 options_initialized, initCalls, insert_order, LastOption, sess>>

\* CaseInsensitiveLess: the iteration order of an OptionsMap
NameOrder == <<"Clear Hash", "Debug Log File", "Hash", "Ponder", "Threads", "tuned">>

\* operator<<(ostream, OptionsMap): for idx = 0 .. size-1, the first option in
\* map order whose idx field equals idx is printed
WithIdx(s, i) ==
  {k \in 1 .. Len(NameOrder) :
     NameOrder[k] \in DOMAIN Options[s] /\ Options[s][NameOrder[k]].idx = i}
Least(S) == CHOOSE k \in S : \A j \in S : k <= j
RECURSIVE PrintedFrom(_, _)
PrintedFrom(s, i) ==
  IF i >= Cardinality(DOMAIN Options[s]) THEN <<>>
  ELSE (IF WithIdx(s, i) = {} THEN <<>> ELSE <<NameOrder[Least(WithIdx(s, i))]>>)
         \o PrintedFrom(s, i + 1)
OptionsPrinted(s) == PrintedFrom(s, 0)

\* UCI::loop, "uci": the reply (id lines, the options, uciok) is written to the
\* session's ThreadIoStreams
Cmd_uci(s) ==
  /\ At(s, "loop")
  /\ sess[s].ucis < MaxUci
  /\ sess' = [sess EXCEPT ![s].ucis = @ + 1]
  /\ out' = OutAfter(IoTarget(s), Line(s, <<"uciok", OptionsPrinted(s)>>))
  /\ console' = ConsoleAfter(IoTarget(s), Line(s, <<"uciok", OptionsPrinted(s)>>))
  /\ UNCHANGED cout_rdbuf
  /\ UNCHANGED <<soloVars, gbt, ioVars, poolState, ndebug, aborted, unit, tuned, mtx, bitboards_initialized,
                 options_initialized, initCalls, insert_order, LastOption, TT, Options>>

\* UCI::loop, "quit" or end of input: the loop returns
Cmd_quit(s) ==
  /\ At(s, "loop")
  /\ SGoto(s, "set0")
  /\ UNCHANGED <<soloVars, gbt, ioVars, pipeVars, poolState, ndebug, aborted, unit, tuned, mtx, bitboards_initialized,
                 options_initialized, initCalls, insert_order, LastOption, TT, Options>>

\* Mutant of W_set0: the pool is left as it is.
W_set0_Skipped(s) ==
  /\ At(s, "set0")
  /\ SGoto(s, "teardown")
  /\ UNCHANGED <<soloVars, gbt, ioVars, pipeVars, poolState, ndebug, aborted, unit, tuned, mtx, bitboards_initialized,
                 options_initialized, initCalls, insert_order, LastOption, TT, Options>>

\* part_000:104, part_001:112  threads.set(0): it returns when every worker is
\* destroyed, that is, has terminated and been joined
W_set0(s) ==
  /\ At(s, "set0")
  /\ sess' = [sess EXCEPT ![s].pc = "teardown", ![s].pool = 0]
  /\ UNCHANGED <<soloVars, gbt, ioVars, pipeVars, poolState, ndebug, aborted, unit, tuned, mtx, bitboards_initialized,
                 options_initialized, initCalls, insert_order, LastOption, TT, Options>>

\* return 0: the session's objects are destroyed; part_001:116-123 points
\* std::cout back at the console and its lock_guard releases mtx;
\* part_000:121 printf
W_teardown(s) ==
  /\ At(s, "teardown")
  /\ sess' = [sess EXCEPT ![s].pc = "done", ![s].status = 0]
  /\ mtx' = IF unit = "part_001" THEN NoSession ELSE mtx
  /\ cout_rdbuf' = IF unit = "part_001" THEN NoSession ELSE cout_rdbuf
  /\ console' = console \cup {Line(s, "Goodbye from thread!")}
  /\ UNCHANGED out
  /\ UNCHANGED <<soloVars, gbt, ioVars, poolState, ndebug, aborted, unit, tuned, bitboards_initialized,
                 options_initialized, initCalls, insert_order, LastOption, TT, Options>>

SessionStep(s) ==
  \/ Session_start(s) \/ W_lock(s) \/ W_bitboards(s) \/ W_unlock(s) \/ W_banner(s)
  \/ W_options(s) \/ Option_insert_load(s) \/ Option_insert_store(s)
  \/ W_tune(s) \/ Tune_LastOption(s) \/ W_set(s)
  \/ \E v \in HashValues : Cmd_setoption_Hash(s, v)
  \/ Cmd_uci(s) \/ Cmd_quit(s) \/ W_set0(s) \/ W_teardown(s)

SessionNext == \E s \in Sessions : SessionStep(s)

SessionIdle ==
  /\ mtx = NoSession
  /\ bitboards_initialized = FALSE
  /\ options_initialized = FALSE
  /\ initCalls = 0
  /\ insert_order = 0
  /\ LastOption = NoOption
  /\ TT = NoSession
  /\ sess = [s \in Sessions |-> [pc |-> "none", k |-> 0, tmp |-> 0, pool |-> 0, ucis |-> 0,
                                  status |-> NoStatus]]
  /\ Options = [s \in Sessions |-> <<>>]
  /\ out = [s \in Sessions |-> <<>>]
  /\ console = {}
  /\ cout_rdbuf = NoSession

\* ===================================================== exclusive emission
\* A producer (any thread of a session) writes a block to the session's stream:
\*   os << std::make_tuple(io, IO_LOCK) << line << line << std::make_tuple(io, IO_UNLOCK)
\* The operators are applied from left to right.
MaxBlocks == 2       \* blocks a producer writes
LinesPerBlock == <<"first", "last">>

\* ipc: 0 outside a block, k before writing the block's k-th line, and one more
\* than the number of lines before IO_UNLOCK
IoAt(p, pc) == ~aborted /\ ipc[p] = pc

\* Mutant of IO_Lock: the lock is not waited for.
IO_Lock_NoWait(p) ==
  /\ IoAt(p, 0)
  /\ iblk[p] < MaxBlocks
  /\ iom' = p
  /\ ipc' = [ipc EXCEPT ![p] = 1]
  /\ UNCHANGED <<iblk, ios, poolState, ndebug, aborted, sessVars, gbt, soloVars>>

\* thread.cpp:272-273  operator<<(os, {io, IO_LOCK}): io->m.lock()
IO_Lock(p) ==
  /\ IoAt(p, 0)
  /\ iblk[p] < MaxBlocks
  /\ iom = Free
  /\ iom' = p
  /\ ipc' = [ipc EXCEPT ![p] = 1]
  /\ UNCHANGED <<iblk, ios, poolState, ndebug, aborted, sessVars, gbt, soloVars>>

\* os << line: the next line of the block goes to the stream
IO_Write(p) ==
  /\ ~aborted
  /\ ipc[p] \in 1 .. Len(LinesPerBlock)
  /\ ios' = Append(ios, [by |-> p, block |-> iblk[p] + 1, line |-> LinesPerBlock[ipc[p]]])
  /\ ipc' = [ipc EXCEPT ![p] = ipc[p] + 1]
  /\ UNCHANGED <<iom, iblk, poolState, ndebug, aborted, sessVars, gbt, soloVars>>

\* thread.cpp:274-275  operator<<(os, {io, IO_UNLOCK}): io->m.unlock()
IO_Unlock(p) ==
  /\ IoAt(p, Len(LinesPerBlock) + 1)
  /\ iom' = Free
  /\ ipc' = [ipc EXCEPT ![p] = 0]
  /\ iblk' = [iblk EXCEPT ![p] = @ + 1]
  /\ UNCHANGED <<ios, poolState, ndebug, aborted, sessVars, gbt, soloVars>>

IoIdle ==
  /\ iom = Free
  /\ ipc = [p \in Procs |-> 0]
  /\ iblk = [p \in Procs |-> 0]
  /\ ios = <<>>

IoNext == \E p \in Procs : IO_Lock(p) \/ IO_Write(p) \/ IO_Unlock(p)

\* ============================================== ThreadPool::get_best_thread()
\* Value constants of types.h, as used at thread.cpp:216, 231, 237, 238
VALUE_NONE == 32002
VALUE_TB_WIN_IN_MAX_PLY == 31508
VALUE_TB_LOSS_IN_MAX_PLY == -VALUE_TB_WIN_IN_MAX_PLY

\* The three workers of the documented scenario, in pool order: rootMoves[0].score,
\* completedDepth, rootMoves[0].pv[0]
Scenario == << [score |-> 100, depth |-> 10, move |-> "e4"],
               [score |-> 90,  depth |-> 12, move |-> "e4"],
               [score |-> 50,  depth |-> 8,  move |-> "d4"] >>
Workers == 1 .. Len(Scenario)

\* Snapshots a worker may hold when get_best_thread() runs: a score with its depth,
\* the first PV move, and rootMoves[0].pv.size()
ScoreDepths == {<<100, 10>>, <<90, 12>>, <<50, 8>>,
                <<VALUE_TB_WIN_IN_MAX_PLY, 10>>, <<VALUE_TB_WIN_IN_MAX_PLY + 1, 8>>,
                <<VALUE_TB_LOSS_IN_MAX_PLY, 8>>}
Snapshots ==
  {[score |-> sd[1], depth |-> sd[2], move |-> mv, pvsize |-> n] :
     sd \in ScoreDepths, mv \in {"e4", "d4"}, n \in {1, 3}}

Abs(x) == IF x < 0 THEN -x ELSE x

\* thread.cpp:216-220  minScore = VALUE_NONE; for th: minScore = min(minScore, score)
RECURSIVE minScoreUpTo(_, _)
minScoreUpTo(sn, k) ==
  IF k = 0 THEN VALUE_NONE
  ELSE IF sn[k].score < minScoreUpTo(sn, k - 1) THEN sn[k].score
       ELSE minScoreUpTo(sn, k - 1)
minScore(sn) == minScoreUpTo(sn, Len(sn))

thread_value_NoBonus(sn, i) == (sn[i].score - minScore(sn)) * sn[i].depth

\* thread.cpp:223-225  (score - minScore + 14) * int(completedDepth)
thread_value(sn, i) == (sn[i].score - minScore(sn) + 14) * sn[i].depth

\* thread.cpp:227-228  for th: votes[th->rootMoves[0].pv[0]] += thread_value(th)
RECURSIVE votesUpTo(_, _, _)
votesUpTo(sn, mv, k) ==
  IF k = 0 THEN 0
  ELSE votesUpTo(sn, mv, k - 1) + (IF sn[k].move = mv THEN thread_value(sn, k) ELSE 0)
votes(sn, mv) == votesUpTo(sn, mv, Len(sn))

PvLong_Ignored(sn, i) == 1

\* int(rootMoves[0].pv.size() > 2)
PvLong(sn, i) == IF sn[i].pvsize > 2 THEN 1 ELSE 0

\* thread.cpp:239-242  the vote conditions of th against bestThread
VoteWins(sn, th, best) ==
  \/ votes(sn, sn[th].move) > votes(sn, sn[best].move)
  \/ /\ votes(sn, sn[th].move) = votes(sn, sn[best].move)
     /\ thread_value(sn, th) * PvLong(sn, th) > thread_value(sn, best) * PvLong(sn, best)

\* Mutant of Replaces: a forced win replaces bestThread only through the votes.
Replaces_VotesOnly(sn, th, best) ==
  IF Abs(sn[best].score) >= VALUE_TB_WIN_IN_MAX_PLY
    THEN sn[th].score > sn[best].score
    ELSE /\ sn[th].score > VALUE_TB_LOSS_IN_MAX_PLY
         /\ VoteWins(sn, th, best)

Replaces_NotStrict(sn, th, best) ==
  IF Abs(sn[best].score) >= VALUE_TB_WIN_IN_MAX_PLY
    THEN sn[th].score >= sn[best].score
    ELSE \/ sn[th].score >= VALUE_TB_WIN_IN_MAX_PLY
         \/ /\ sn[th].score > VALUE_TB_LOSS_IN_MAX_PLY
            /\ VoteWins(sn, th, best)

Replaces_LossVotes(sn, th, best) ==
  IF Abs(sn[best].score) >= VALUE_TB_WIN_IN_MAX_PLY
    THEN sn[th].score > sn[best].score
    ELSE \/ sn[th].score >= VALUE_TB_WIN_IN_MAX_PLY
         \/ VoteWins(sn, th, best)

\* thread.cpp:231-243  the condition under which bestThread = th
Replaces(sn, th, best) ==
  IF Abs(sn[best].score) >= VALUE_TB_WIN_IN_MAX_PLY
    THEN sn[th].score > sn[best].score
    ELSE \/ sn[th].score >= VALUE_TB_WIN_IN_MAX_PLY
         \/ /\ sn[th].score > VALUE_TB_LOSS_IN_MAX_PLY
            /\ VoteWins(sn, th, best)

\* thread.cpp:214-228  bestThread = threads.front(); minScore and votes are computed
GBT_start ==
  /\ ~aborted
  /\ gbt.pc = "start"
  /\ gbt' = [gbt EXCEPT !.best = 1, !.k = 1, !.pc = "pick"]
  /\ UNCHANGED <<poolState, ndebug, aborted, sessVars, ioVars, soloVars>>

\* thread.cpp:230-245  one iteration of the selection loop over the threads in
\* pool order; after the last one bestThread is returned
GBT_pick ==
  /\ ~aborted
  /\ gbt.pc = "pick"
  /\ gbt' = [gbt EXCEPT
               !.best = IF Replaces(gbt.snap, gbt.k, gbt.best) THEN gbt.k ELSE @,
               !.k = @ + 1,
               !.pc = IF gbt.k = Len(gbt.snap) THEN "returned" ELSE "pick"]
  /\ UNCHANGED <<poolState, ndebug, aborted, sessVars, ioVars, soloVars>>

BestNext == GBT_start \/ GBT_pick

\* ======================================================= pipe_wrapper (part_000)
\* The ends of the two pipes: fd_in[0], fd_in[1], fd_out[0], fd_out[1]
Ends(s, names) == {<<s, e>> : e \in names}
OAt(s, pc) == ~aborted /\ opener[s].pc = pc
OGoto(s, pc) == opener' = [opener EXCEPT ![s].pc = pc]
OReturn(s, st) == opener' = [opener EXCEPT ![s].pc = "returned", ![s].status = st]

\* part_000:130-133  if (pipe(fd_in)) return 1
PW_pipe_in(s, ok) ==
  /\ OAt(s, "pipe_in")
  /\ IF ok THEN /\ fds' = fds \cup Ends(s, {"fd_in[0]", "fd_in[1]"})
                /\ OGoto(s, "pipe_out")
           ELSE /\ fds' = fds
                /\ OReturn(s, 1)
  /\ UNCHANGED <<poolState, ndebug, aborted, sessVars, ioVars, gbt, opt, acc, super>>

\* part_000:134-137  if (pipe(fd_out)) return 1
PW_pipe_out(s, ok) ==
  /\ OAt(s, "pipe_out")
  /\ IF ok THEN /\ fds' = fds \cup Ends(s, {"fd_out[0]", "fd_out[1]"})
                /\ OGoto(s, "open")
           ELSE /\ fds' = fds
                /\ OReturn(s, 1)
  /\ UNCHANGED <<poolState, ndebug, aborted, sessVars, ioVars, gbt, opt, acc, super>>

\* part_000:150-165  file_in.open(fd_in[1]); file_out.open(fd_out[0]);
\* if either is not open, return 1
PW_open(s, ok) ==
  /\ OAt(s, "open")
  /\ fds' = fds
  /\ IF ok THEN OGoto(s, "create") ELSE OReturn(s, 1)
  /\ UNCHANGED <<poolState, ndebug, aborted, sessVars, ioVars, gbt, opt, acc, super>>

\* part_000:167-171  if (pthread_create(...)) return 1: file_in and file_out are
\* destroyed on the way out, which closes the descriptors they wrap
PW_create(s, ok) ==
  /\ OAt(s, "create")
  /\ IF ok THEN /\ fds' = fds
                /\ OGoto(s, "running")
           ELSE /\ fds' = fds \ Ends(s, {"fd_in[1]", "fd_out[0]"})
                /\ OReturn(s, 1)
  /\ UNCHANGED <<poolState, ndebug, aborted, sessVars, ioVars, gbt, opt, acc, super>>

\* part_000:173-188  the commands are fed, the replies read until the runner has
\* closed its end (its fin and fout wrap fd_in[0] and fd_out[1], part_000:58-62),
\* the runner thread is joined
PW_join(s) ==
  /\ OAt(s, "running")
  /\ fds' = fds \ Ends(s, {"fd_in[0]", "fd_out[1]"})
  /\ OGoto(s, "close")
  /\ UNCHANGED <<poolState, ndebug, aborted, sessVars, ioVars, gbt, opt, acc, super>>

\* part_000:190-193  file_out.close(); file_in.close(); return 0
PW_close(s) ==
  /\ OAt(s, "close")
  /\ fds' = fds \ Ends(s, {"fd_in[1]", "fd_out[0]"})
  /\ OReturn(s, 0)
  /\ UNCHANGED <<poolState, ndebug, aborted, sessVars, ioVars, gbt, opt, acc, super>>

\* part_000:207-230  main starts its openers, which run concurrently
OpenIdle ==
  /\ opener = [s \in Sessions |-> [pc |-> "pipe_in", status |-> NoStatus]]
  /\ fds = {}
  /\ super = [pc |-> "none", k |-> 0, status |-> NoStatus,
              gone |-> [s \in Sessions |-> FALSE], read |-> [s \in Sessions |-> 0]]

\* ------------------------------------------- the supervised run of a session
\* What no step of main, of a supervisor or of a runner's exit changes
SuperFrame == <<poolState, ndebug, aborted, ioVars, gbt, opt, acc, unit, tuned, mtx,
                bitboards_initialized, options_initialized, initCalls, insert_order,
                LastOption, TT, cout_rdbuf>>

\* main has returned: the process is over
Exited == super.pc \in {"returned", "failed"}
\* The runner thread of the session has been created (part_000:167) and runs
Created(s) ==
  opener[s].pc \in {"running", "sleep", "drain", "join"} /\ ~super.gone[s]

\* part_000:176-178  file_in << "uci" ... "setoption ..." ... "go movetime 3500"
SV_feed(s) ==
  /\ OAt(s, "running")
  /\ OGoto(s, "sleep")
  /\ UNCHANGED <<SuperFrame, fds, super, sess, Options, out, console>>

\* part_000:179-180  sleep(5); file_in << "quit" << std::endl
SV_quit(s) ==
  /\ OAt(s, "sleep")
  /\ OGoto(s, "drain")
  /\ UNCHANGED <<SuperFrame, fds, super, sess, Options, out, console>>

\* part_000:183-186  while (std::getline(file_out, temp)) printf(">>> ..."):
\* the next line of the pipe; with none left, read() blocks while the write end
\* is open and returns 0 once it is closed (uci.h underflow), which ends the loop
SV_getline(s) ==
  /\ OAt(s, "drain")
  /\ IF super.read[s] < Len(out[s])
       THEN /\ super' = [super EXCEPT !.read[s] = @ + 1]
            /\ console' = console \cup {Line(s, ">>>")}
            /\ opener' = opener
       ELSE /\ <<s, "fd_out[1]">> \notin fds
            /\ OGoto(s, "join")
            /\ UNCHANGED <<super, console>>
  /\ UNCHANGED <<SuperFrame, fds, sess, Options, out>>

\* part_000:187-189  pthread_join(thread_id, NULL)
SV_join(s) ==
  /\ OAt(s, "join")
  /\ super.gone[s]
  /\ OGoto(s, "close")
  /\ UNCHANGED <<SuperFrame, fds, super, sess, Options, out, console>>

\* Mutant of Runner_return: the streams' descriptors stay open.
Runner_return_Open(s) ==
  /\ ~aborted
  /\ Created(s)
  /\ sess[s].pc = "done"
  /\ fds' = fds
  /\ super' = [super EXCEPT !.gone[s] = TRUE]
  /\ UNCHANGED <<SuperFrame, opener, sess, Options, out, console>>

\* part_000:104-105, 115-124  stockfish_thread_wrapper returns: its fin and
\* fout are destroyed, which closes fd_in[0] and fd_out[1] (uci.h ~basic_filebuf2,
\* close); thread_main returns and the runner thread terminates
Runner_return(s) ==
  /\ ~aborted
  /\ Created(s)
  /\ sess[s].pc = "done"
  /\ fds' = fds \ Ends(s, {"fd_in[0]", "fd_out[1]"})
  /\ super' = [super EXCEPT !.gone[s] = TRUE]
  /\ UNCHANGED <<SuperFrame, opener, sess, Options, out, console>>

\* UCI::loop reads the script in order: "uci" once it is fed, "quit" after it
ScriptUci(s) ==
  /\ opener[s].pc \in {"sleep", "drain"}
  /\ sess[s].ucis = 0
  /\ Cmd_uci(s)
ScriptQuit(s) ==
  /\ opener[s].pc = "drain"
  /\ sess[s].ucis > 0
  /\ Cmd_quit(s)

\* A step of the runner thread of session s
RunnerStep(s) ==
  /\ ~Exited
  /\ \/ /\ Created(s)
        /\ \/ Session_start(s) \/ W_lock(s) \/ W_bitboards(s) \/ W_unlock(s) \/ W_banner(s)
           \/ W_options(s) \/ Option_insert_load(s) \/ Option_insert_store(s)
           \/ W_tune(s) \/ Tune_LastOption(s) \/ W_set(s)
           \/ ScriptUci(s) \/ ScriptQuit(s) \/ W_set0(s) \/ W_teardown(s)
     \/ Runner_return(s)

\* A step of the thread that runs pipe_wrapper for session s
SupervisorStep(s) ==
  /\ ~Exited
  /\ \/ \E ok \in BOOLEAN : PW_pipe_in(s, ok)
     \/ \E ok \in BOOLEAN : PW_pipe_out(s, ok)
     \/ \E ok \in BOOLEAN : PW_open(s, ok)
     \/ \E ok \in BOOLEAN : PW_create(s, ok)
     \/ SV_feed(s) \/ SV_quit(s) \/ SV_getline(s) \/ SV_join(s)
     \/ PW_close(s)

\* part_000:214-219  for each i: if (pthread_create(... pipe_wrapper_wrapper ...))
\* return 1.  Returning from main ends the process.
Main_spawn(ok) ==
  /\ ~aborted
  /\ super.pc = "spawn"
  /\ IF ok
       THEN /\ opener' = [opener EXCEPT ![super.k + 1].pc = "pipe_in"]
            /\ super' = IF super.k + 1 < MaxSessions
                          THEN [super EXCEPT !.k = @ + 1]
                          ELSE [super EXCEPT !.k = 0, !.pc = "join"]
       ELSE /\ opener' = opener
            /\ super' = [super EXCEPT !.pc = "failed", !.status = 1]
  /\ UNCHANGED <<SuperFrame, fds, sess, Options, out, console>>

\* part_000:221-225  for each i: pthread_join(threads[i], NULL)
Main_join ==
  /\ ~aborted
  /\ super.pc = "join"
  /\ opener[super.k + 1].pc = "returned"
  /\ super' = IF super.k + 1 < MaxSessions
                THEN [super EXCEPT !.k = @ + 1]
                ELSE [super EXCEPT !.k = 0, !.pc = "foreground"]
  /\ UNCHANGED <<SuperFrame, opener, fds, sess, Options, out, console>>

\* part_000:229  pipe_wrapper(argc, argv) called by main: one more session with
\* pipes, streams, session objects and a runner of its own, here in the place
\* of the first one, which is over
Main_foreground ==
  /\ ~aborted
  /\ super.pc = "foreground"
  /\ opener' = [opener EXCEPT ![1] = [pc |-> "pipe_in", status |-> NoStatus]]
  /\ sess' = [sess EXCEPT ![1] = [pc |-> "none", k |-> 0, tmp |-> 0, pool |-> 0,
                                   ucis |-> 0, status |-> NoStatus]]
  /\ Options' = [Options EXCEPT ![1] = <<>>]
  /\ out' = [out EXCEPT ![1] = <<>>]
  /\ super' = [super EXCEPT !.pc = "last", !.gone[1] = FALSE, !.read[1] = 0]
  /\ UNCHANGED <<SuperFrame, fds, console>>

\* part_000:229  return pipe_wrapper(argc, argv)
Main_return ==
  /\ ~aborted
  /\ super.pc = "last"
  /\ opener[1].pc = "returned"
  /\ super' = [super EXCEPT !.pc = "returned", !.status = opener[1].status]
  /\ UNCHANGED <<SuperFrame, opener, fds, sess, Options, out, console>>

SuperMainStep ==
  \/ \E ok \in BOOLEAN : Main_spawn(ok)
  \/ Main_join \/ Main_foreground \/ Main_return

SuperNext ==
  \/ SuperMainStep
  \/ \E s \in Sessions : SupervisorStep(s)
  \/ \E s \in Sessions : RunnerStep(s)

OpenNext ==
  \E s \in Sessions :
    \/ \E ok \in BOOLEAN : PW_pipe_in(s, ok)
    \/ \E ok \in BOOLEAN : PW_pipe_out(s, ok)
    \/ \E ok \in BOOLEAN : PW_open(s, ok)
    \/ \E ok \in BOOLEAN : PW_create(s, ok)
    \/ PW_join(s)
    \/ PW_close(s)

\* ============================================ ThreadPool::accumulate (thread.h)
NoResult == -1
Members == {"nodes", "tbHits"}
AccIdle == acc = [p \in Callers |-> [member |-> "nodes", sum |-> 0, quiet |-> FALSE,
                                      result |-> NoResult]]

\* (th->*member).load(std::memory_order_relaxed) of the Thread in slot i
Load(member, i) == IF member = "nodes" THEN nodes[i] ELSE wstat[i].tbHits

\* No Thread of the pool has its searching flag set
NoneSearching == \A i \in 0 .. (Len(threads) - 1) : ~searching[i]

\* part_002:163-164, 210  nodes_searched() / tb_hits() call accumulate(member):
\* uint64_t sum = 0.  The callers are the command loop between two commands
\* and the main thread inside its search.  History: whether no Thread was
\* searching at any step of the call.
ThreadPool_accumulate(p, member) ==
  /\ \/ p = Uci /\ AtU("idle")
     \/ p = 0 /\ AtW(0, "run")
  /\ call' = [call EXCEPT ![p] = Frame("accumulate", 0, "load", "")]
  /\ acc' = [acc EXCEPT ![p] = [member |-> member, sum |-> 0, quiet |-> NoneSearching,
                                 result |-> NoResult]]
  /\ UNCHANGED <<thinkVars, histVars, openVars, opt, super, gbt, ioVars, sessVars, poolVars, objVars, wpc, mk, stop, nodes, ndebug, aborted, hist>>

\* Mutant of Acc_load: the value read replaces the sum.
Acc_load_Overwrite(p) ==
  /\ InCall(p, "accumulate", "load")
  /\ call[p].t < Len(threads)
  /\ acc' = [acc EXCEPT ![p].sum = Load(acc[p].member, call[p].t),
                         ![p].quiet = @ /\ NoneSearching]
  /\ call' = [call EXCEPT ![p].t = @ + 1]
  /\ UNCHANGED <<thinkVars, histVars, openVars, opt, super, gbt, ioVars, sessVars, poolVars, objVars, wpc, mk, stop, nodes, ndebug, aborted, hist>>

\* part_002:211-212  for (Thread* th : threads) sum += (th->*member).load(relaxed)
Acc_load(p) ==
  /\ InCall(p, "accumulate", "load")
  /\ call[p].t < Len(threads)
  /\ acc' = [acc EXCEPT ![p].sum = @ + Load(acc[p].member, call[p].t),
                         ![p].quiet = @ /\ NoneSearching]
  /\ call' = [call EXCEPT ![p].t = @ + 1]
  /\ UNCHANGED <<thinkVars, histVars, openVars, opt, super, gbt, ioVars, sessVars, poolVars, objVars, wpc, mk, stop, nodes, ndebug, aborted, hist>>

\* part_002:213  return sum
Acc_return(p) ==
  /\ InCall(p, "accumulate", "load")
  /\ call[p].t >= Len(threads)
  /\ acc' = [acc EXCEPT ![p].result = acc[p].sum, ![p].quiet = @ /\ NoneSearching]
  /\ call' = [call EXCEPT ![p] = NoCall]
  /\ UNCHANGED <<thinkVars, histVars, openVars, opt, super, gbt, ioVars, sessVars, poolVars, objVars, wpc, mk, stop, nodes, ndebug, aborted, hist>>

AccStep(p) == Acc_load(p) \/ Acc_return(p)

\* ============================================ Option::operator= (ucioption.cpp)
MaxAssigns == 2      \* assignments made to one option

\* Values a user may send; the combo's tokens are those of its default string
AssignedValues == {"", "true", "false", "5", "2000", "abc", "Both", "both", "var", "VAR"}
ComboTokens == {"Both", "var", "Off"}
OptionTypes == {"button", "string", "check", "spin", "combo"}

\* ucioption.cpp:47-52  CaseInsensitiveLess compares the lower-cased strings
ToLower(v) == CASE v = "Both" -> "both" [] v = "VAR" -> "var" [] v = "Off" -> "off"
                [] OTHER -> v

\* std::stof(v): the number a string starts with; it throws when there is none
Numeric == {"5", "2000"}
Stof(v) == IF v = "5" THEN 5 ELSE 2000

\* ucioption.cpp:113-139  an Option as constructed, by type: "spin" with the
\* limits of Threads (ucioption.cpp:62), with or without an on_change action
NewOption(type, f) ==
  [type |-> type, min |-> IF type = "spin" THEN 1 ELSE 0,
   max |-> IF type = "spin" THEN 1024 ELSE 0,
   currentValue |-> CASE type = "check" -> "false" [] type = "spin" -> "5"
                      [] type = "combo" -> "Both" [] OTHER -> "",
   on_change |-> f, changes |-> 0, assigns |-> 0, arg |-> "", threw |-> FALSE]

FailsFirstCheck_NoRange(o, v) ==
  \/ o.type # "button" /\ o.type # "string" /\ v = ""
  \/ o.type = "check" /\ v # "true" /\ v # "false"

\* ucioption.cpp:178-181  the first validation
FailsFirstCheck(o, v) ==
  \/ o.type # "button" /\ o.type # "string" /\ v = ""
  \/ o.type = "check" /\ v # "true" /\ v # "false"
  \/ o.type = "spin" /\ (Stof(v) < o.min \/ Stof(v) > o.max)

\* ucioption.cpp:183-192  the combo validation: comboMap.count(v) looks v up
\* without regard to case; v == "var" compares the characters
FailsComboCheck(o, v) ==
  /\ o.type = "combo"
  /\ \/ ToLower(v) \notin {ToLower(t) : t \in ComboTokens}
     \/ v = "var"

\* Whether evaluating the first validation calls std::stof on a string that
\* holds no number: the conditions before it are false and type is "spin"
StofThrows(o, v) == o.type = "spin" /\ v # "" /\ v \notin Numeric

\* ucioption.cpp:174-201  Option::operator=(v).  History: the value assigned and
\* the number of calls of on_change.
Option_assign(v) ==
  /\ ~aborted
  /\ opt.assigns < MaxAssigns
  /\ ~opt.threw
  /\ LET o == [opt EXCEPT !.assigns = @ + 1, !.arg = v] IN
       opt' = IF StofThrows(opt, v) THEN [o EXCEPT !.threw = TRUE]
              ELSE IF FailsFirstCheck(opt, v) \/ FailsComboCheck(opt, v) THEN o
              ELSE [o EXCEPT !.currentValue = IF opt.type # "button" THEN v ELSE @,
                             !.changes = IF opt.on_change THEN @ + 1 ELSE @]
  /\ UNCHANGED <<poolState, ndebug, aborted, sessVars, ioVars, gbt, openVars, acc, super>>

OptionNext == \E v \in AssignedValues : Option_assign(v)

\* ============================================================== specifications
PoolInit ==
  /\ threads = <<>>
  /\ kind = [i \in Slots |-> "None"]
  /\ searching = [i \in Slots |-> FALSE]
  /\ exit = [i \in Slots |-> FALSE]
  /\ mutex = [i \in Slots |-> Free]
  /\ cv = [i \in Slots |-> {}]
  /\ wpc = [i \in Slots |-> "none"]
  /\ call = [p \in Procs |-> NoCall]
  /\ upc = "idle"
  /\ requested = 0
  /\ uk = 0
  /\ mk = 0
  /\ stop = FALSE
  /\ nodes = [i \in Slots |-> 0]
  /\ aborted = FALSE
  /\ hist = [pending |-> [i \in Slots |-> 0],
             sets |-> [i \in Slots |-> 0],
             seenIdle |-> [i \in Slots |-> FALSE],
             dtorSawSearching |-> [i \in Slots |-> FALSE],
             given |-> NoCall.op,
             ranked |-> 0,
             answers |-> 0]
  /\ go = NoGo
  /\ wstat = [i \in Slots |-> Fresh(<<>>)]
  /\ states = Null
  /\ setupStates = Null

\* The pool of one session (part_000's runner; no tuned parameter)
Init ==
  /\ PoolInit
  /\ ndebug \in BOOLEAN
  /\ unit = "part_000"
  /\ tuned = FALSE
  /\ SessionIdle
  /\ IoIdle
  /\ OpenIdle
  /\ AccIdle
  /\ opt = NewOption("button", FALSE)
  /\ gbt = [snap |-> [i \in Workers |-> [score |-> Scenario[i].score, depth |-> Scenario[i].depth,
                                        move |-> Scenario[i].move, pvsize |-> 3]],
            best |-> 0, k |-> 0, pc |-> "start"]

\* The supervisor's sessions, for either runner and either build configuration
SessionInit ==
  /\ PoolInit
  /\ ndebug \in BOOLEAN
  /\ unit \in Units
  /\ tuned \in BOOLEAN
  /\ SessionIdle
  /\ IoIdle
  /\ OpenIdle
  /\ AccIdle
  /\ opt = NewOption("button", FALSE)
  /\ gbt = [snap |-> <<>>, best |-> 0, k |-> 0, pc |-> "none"]

SessionSpec == SessionInit /\ [][SessionNext]_vars

\* get_best_thread() on any snapshot of three idle workers
BestInit ==
  /\ PoolInit
  /\ ndebug = FALSE
  /\ unit = "part_000"
  /\ tuned = FALSE
  /\ SessionIdle
  /\ IoIdle
  /\ OpenIdle
  /\ AccIdle
  /\ opt = NewOption("button", FALSE)
  /\ \E sn \in [Workers -> Snapshots] :
        gbt = [snap |-> sn, best |-> 0, k |-> 0, pc |-> "start"]

BestSpec == BestInit /\ [][BestNext]_vars

\* Assignments to an option of any type
OptionInit ==
  /\ PoolInit
  /\ ndebug = FALSE
  /\ unit = "part_000"
  /\ tuned = FALSE
  /\ SessionIdle
  /\ IoIdle
  /\ OpenIdle
  /\ gbt = [snap |-> <<>>, best |-> 0, k |-> 0, pc |-> "none"]
  /\ AccIdle
  /\ \E type \in OptionTypes, f \in BOOLEAN : opt = NewOption(type, f)

OptionSpec == OptionInit /\ [][OptionNext]_vars

\* main, its supervisors and the sessions they run (part_000)
SuperInit ==
  /\ PoolInit
  /\ ndebug = FALSE
  /\ unit = "part_000"
  /\ tuned = FALSE
  /\ SessionIdle
  /\ IoIdle
  /\ AccIdle
  /\ opt = NewOption("button", FALSE)
  /\ gbt = [snap |-> <<>>, best |-> 0, k |-> 0, pc |-> "none"]
  /\ opener = [s \in Sessions |-> [pc |-> "none", status |-> NoStatus]]
  /\ fds = {}
  /\ super = [pc |-> "spawn", k |-> 0, status |-> NoStatus,
              gone |-> [s \in Sessions |-> FALSE], read |-> [s \in Sessions |-> 0]]

SuperSpec == SuperInit /\ [][SuperNext]_vars

\* Scheduling: every thread that can take a step eventually takes one, and a
\* runner that finds the startup mutex free again and again eventually gets it.
FairSuperSpec ==
  /\ SuperSpec
  /\ WF_vars(SuperMainStep)
  /\ \A s \in Sessions : WF_vars(SupervisorStep(s))
  /\ \A s \in Sessions : SF_vars(RunnerStep(s))

\* The openers of the process
OpenSpec == Init /\ [][OpenNext]_vars

\* The producers of one session writing emission blocks
IoSpec == Init /\ [][IoNext]_vars

\* A step of a Thread member function run by thread p
CallStep(p) ==
  \/ SS_lock(p) \/ SS_set(p) \/ SS_unlock(p) \/ SS_notify(p)
  \/ WSF_lock(p) \/ WSF_wait(p) \/ WSF_wake(p)
  \/ D_assert(p) \/ D_exit(p) \/ D_join(p)
  \/ C_launch(p) \/ C_members(p)

\* A step of the worker thread of slot i
WorkerStep(i) ==
  \/ IL_bind(i) \/ IL_lock(i) \/ IL_setidle(i) \/ IL_wait(i)
  \/ IL_wake(i) \/ IL_exitchk(i)
  \/ SearchWork(i) \/ SearchDone(i)

\* A step of MainThread::search() outside its own search
MainStep ==
  \/ ThreadPool_start_searching \/ ThreadPool_wait_for_search_finished
  \/ M_stop \/ M_best

\* A step inside a running ThreadPool::set or start_thinking
PoolStep ==
  \/ Set_pop \/ Set_popped \/ Set_new \/ Set_push \/ Set_more
  \/ ST_flags \/ ST_reset \/ ST_wake

\* The program: the command loop drives the pool.
Next ==
  \/ \E n \in 0 .. MaxThreads : ThreadPool_set(n)
  \/ \E h \in UciHandles, g \in UciGo :
       (h # Null \/ setupStates # Null) /\ ThreadPool_start_thinking(h, g)
  \/ PoolStep
  \/ MainStep
  \/ \E p \in Callers : CallStep(p)
  \/ \E i \in Slots : WorkerStep(i)
  \/ \E p \in Procs, t \in Slots : SpuriousWakeup(p, t)

Spec == Init /\ [][Next]_vars

\* A caller of start_thinking() that hands over any handle, an empty one on a
\* fresh pool included, on a pool of at most the main thread
HistNext ==
  \/ \E n \in {0, 1} : ThreadPool_set(n)
  \/ \E h \in Handles, g \in UciGo : ThreadPool_start_thinking(h, g)
  \/ PoolStep
  \/ MainStep
  \/ \E p \in Callers : CallStep(p)
  \/ \E i \in Slots : WorkerStep(i)
  \/ \E p \in Procs, t \in Slots : SpuriousWakeup(p, t)

HistSpec == Init /\ [][HistNext]_vars

\* A caller of start_thinking() that asks for any position and allow-list, on a
\* pool of the main thread and one more worker
ThinkNext ==
  \/ \E n \in {0, 2} : ThreadPool_set(n)
  \/ \E h \in UciHandles, g \in GoArgs :
       (h # Null \/ setupStates # Null) /\ ThreadPool_start_thinking(h, g)
  \/ PoolStep
  \/ MainStep
  \/ \E p \in Callers : CallStep(p)
  \/ \E i \in Slots : WorkerStep(i)
  \/ \E p \in Procs, t \in Slots : SpuriousWakeup(p, t)

ThinkSpec == Init /\ [][ThinkNext]_vars

\* The command loop and the main thread read the pool's counters
SumNext ==
  \/ \E n \in {0, MaxThreads} : ThreadPool_set(n)
  \/ \E h \in UciHandles, g \in UciGo :
       (h # Null \/ setupStates # Null) /\ ThreadPool_start_thinking(h, g)
  \/ \E p \in Callers, member \in Members : ThreadPool_accumulate(p, member)
  \/ \E p \in Callers : AccStep(p)
  \/ PoolStep
  \/ MainStep
  \/ \E p \in Callers : CallStep(p)
  \/ \E i \in Slots : WorkerStep(i)

SumSpec == Init /\ [][SumNext]_vars

\* One Thread object driven through its public member functions.
ApiNext ==
  \/ Api_create \/ Api_start_searching \/ Api_wait_for_search_finished \/ Api_destroy
  \/ CallStep(Uci)
  \/ WorkerStep(0)
  \/ \E p \in {Uci, 0} : SpuriousWakeup(p, 0)

ApiSpec == Init /\ [][ApiNext]_vars

FairApiSpec ==
  ApiSpec /\ SF_vars(CallStep(Uci)) /\ SF_vars(WorkerStep(0))

\* One Thread object shared by two clients that start searches and wait for them.
WaiterStep(p) ==
  \/ C_launch(p) \/ C_members(p)
  \/ SS_lock(p) \/ SS_set(p) \/ SS_unlock(p) \/ SS_notify(p)
  \/ WSF_lock(p) \/ WSF_wait(p) \/ WSF_wake(p)

WaitersNext ==
  \/ Client_create \/ Client_created
  \/ \E p \in Waiters : Client_start_searching(p) \/ Client_wait_for_search_finished(p)
  \/ \E p \in Waiters : WaiterStep(p)
  \/ WorkerStep(1)
  \/ \E p \in Waiters \cup {1} : SpuriousWakeup(p, 1)

WaitersSpec == Init /\ [][WaitersNext]_vars

\* Every thread that can take a step keeps running; a spurious wake-up may
\* happen but never has to.
FairWaitersSpec ==
  /\ WaitersSpec
  /\ \A p \in Waiters : SF_vars(WaiterStep(p))
  /\ SF_vars(WorkerStep(1))

TypeOK ==
  /\ threads \in Seq({"Main", "Plain"})
  /\ Len(threads) <= MaxThreads
  /\ \A i \in Slots : mutex[i] \in Procs \cup {Free}
  /\ \A i \in Slots : cv[i] \subseteq Procs
  /\ \A i \in Slots : nodes[i] \in 0 .. MaxNodes
  /\ \A i \in Slots : hist.pending[i] \in -1 .. 2

\* Scheduling: every thread that can take a step eventually takes one (the OS
\* schedules every runnable thread; search() returns), and a thread trying to lock
\* a mutex that is free again and again eventually gets it.  Nothing obliges the
\* command loop to issue a further command, nor a wait() to wake spuriously.
Fairness ==
  /\ \A p \in Callers : SF_vars(CallStep(p))
  /\ \A i \in Slots : SF_vars(WorkerStep(i))
  /\ WF_vars(MainStep)
  /\ WF_vars(PoolStep)

FairSpec == Spec /\ Fairness

\* A step of the worker thread of slot i whose search is ended by the stop flag
PollingWorkerStep(i) ==
  \/ IL_bind(i) \/ IL_lock(i) \/ IL_setidle(i) \/ IL_wait(i)
  \/ IL_wake(i) \/ IL_exitchk(i)
  \/ SearchWork(i) \/ SearchPolled(i)

\* Searches that run until they are cancelled, in a pool of MaxThreads workers
StopNext ==
  \/ \E n \in {0, MaxThreads} : ThreadPool_set(n)
  \/ \E h \in UciHandles, g \in UciGo :
       (h # Null \/ setupStates # Null) /\ ThreadPool_start_thinking(h, g)
  \/ Stop_request
  \/ Check_time
  \/ PoolStep
  \/ MainStep
  \/ \E p \in Callers : CallStep(p)
  \/ \E i \in Slots : PollingWorkerStep(i)

StopSpec == Init /\ [][StopNext]_vars

\* The scheduling of Fairness; nothing obliges anyone to request a stop.
FairStopSpec ==
  /\ StopSpec
  /\ \A p \in Callers : SF_vars(CallStep(p))
  /\ \A i \in Slots : SF_vars(PollingWorkerStep(i))
  /\ WF_vars(MainStep)
  /\ WF_vars(PoolStep)

\* =================================================================== claims
\* The process died in a worker's read of an uninitialized _threads
Faulted == \E i \in Slots : wpc[i] = "fault"

Parked(i) == wpc[i] = "blocked" /\ i \in cv[i] /\ ~searching[i]

\* C1: no wake-up is lost.  Every start_searching() that sets an idle worker (not
\* asked to exit) to searching leads to an invocation of that worker's search(),
\* after which the worker has set searching = false and is parked again; at no
\* time is more than one invocation owed, and none happens that was not requested.
C1_NoLostWakeup ==
  /\ [](\A i \in Slots : hist.pending[i] \in {0, 1})
  /\ \A i \in Slots : (hist.pending[i] = 1) ~> (hist.pending[i] = 0 /\ Parked(i))

\* C1 witness: a worker running the search that a start_searching() on the parked
\* worker requested.
C1_Witness ==
  \E i \in Slots : wpc[i] = "run" /\ kind[i] = "Plain" /\ hist.pending[i] = 0 /\ searching[i]

\* C2: every change to a worker's lifecycle state (searching, exit) of an existing
\* Thread object is made while that worker's mutex is held.
C2_ChangesUnderLock ==
  [][\A i \in Slots :
       (/\ kind[i] # "None"
        /\ kind'[i] # "None"
        /\ (searching'[i] # searching[i] \/ exit'[i] # exit[i]))
       => mutex[i] # Free]_vars

\* Workers of the pool other than the main thread
Others == {i \in Slots : 0 < i /\ i < Len(threads)}

MainIdle == ~searching[0] /\ wpc[0] \in {"wait", "blocked"}

\* C3: when the pool's start_searching() has returned, the main thread has set
\* every other worker to searching exactly once and the main thread not at all;
\* when the pool's wait_for_search_finished() has returned, the main thread has
\* seen every other worker with searching = false while holding that worker's lock.
C3_PoolStartAndWait ==
  /\ (kind[0] = "Main" /\ wpc[0] \in {"run", "m_stop", "pool_wait", "m_best"})
       => /\ \A i \in Others : hist.sets[i] = 1
          /\ hist.sets[0] = 0
          /\ searching[0]
  /\ (kind[0] = "Main" /\ wpc[0] = "m_best")
       => \A i \in Others : hist.seenIdle[i] /\ ~searching[i]

\* C3 witness: the pool's wait has returned in a pool with another worker.
C3_Witness == kind[0] = "Main" /\ wpc[0] = "m_best" /\ Others # {}

\* start_thinking() is past its wait on the main thread
InStartThinking ==
  \/ upc \in {"st_reset", "st_wake"}
  \/ upc = "st_flags" /\ call[Uci] = NoCall

\* C4: start_thinking() overwrites the search state (flags, counters) only while
\* the main thread is idle, and sets the main thread to searching only when no
\* invocation of its search() is running.
C4_NewSearchAfterPrevious ==
  /\ InStartThinking => MainIdle
  /\ (/\ call[Uci].op = "start_searching"
      /\ call[Uci].ret = ""
      /\ call[Uci].pc \in {"lock", "set"}) => MainIdle

\* C4 witness: a second start_thinking() is past its wait after a search has run
\* (the stop flag that search set is still up).
C4_Witness == upc = "st_flags" /\ call[Uci] = NoCall /\ stop

\* C5: when set(n) has returned, the pool holds exactly n workers, slot 0 is the
\* MainThread and no other slot is, and no Thread object exists outside the pool.
C5_SetSize ==
  upc = "idle" =>
    /\ Len(threads) = requested
    /\ \A k \in 1 .. Len(threads) : threads[k] = (IF k = 1 THEN "Main" ELSE "Plain")
    /\ \A i \in Slots : kind[i] = (IF i < Len(threads) THEN threads[i + 1] ELSE "None")

\* C5 witness: set(1) has returned on a pool that had a second worker before.
C5_Witness == upc = "idle" /\ Len(threads) = 1 /\ requested = 1 /\ exit[1]

\* The command loop is in ~Thread of slot t, before the exit request
DtorEntered(t) ==
  call[Uci].op = "dtor" /\ call[Uci].t = t /\ call[Uci].pc \in {"assert", "exit"}

\* C6: set() destroys no worker before the main thread is idle, and no worker is
\* destroyed while it is searching.
C6_NoDestroyWhileSearching ==
  /\ aborted => Faulted
  /\ \A t \in Slots :
       DtorEntered(t) => /\ MainIdle
                         /\ ~searching[t]
                         /\ wpc[t] \in {"wait", "blocked"}
                         /\ ~hist.dtorSawSearching[t]

\* C6 witness: set() is destroying a worker after a search has run.
C6_Witness == \E t \in Slots : DtorEntered(t) /\ t > 0 /\ stop

\* The caller is in ~Thread of slot t, past the assertion
PastAssert(t) ==
  \E p \in Callers :
    /\ call[p].t = t
    /\ \/ call[p].op = "dtor" /\ call[p].pc \in {"exit", "join"}
       \/ call[p].ret = "dtor"

\* C7: a destructor that found the worker searching takes the fatal path: it
\* never gets past the assertion.
C7_DestroySearchingIsFatal ==
  \A t \in Slots : hist.dtorSawSearching[t] => ~PastAssert(t)

\* C8: the destructor of a worker that is parked idle returns (the worker thread
\* has ended and is joined), and between the exit request and the join the
\* worker does not run search().
C8_DestroyIdleTerminates ==
  /\ [](\A t \in Slots : (PastAssert(t) /\ ~hist.dtorSawSearching[t]) => wpc[t] # "run")
  /\ \A t \in Slots :
       (call[Uci].op = "dtor" /\ call[Uci].t = t /\ call[Uci].pc = "assert" /\ Parked(t))
         ~> (kind[t] = "None")

\* C8 witness: the worker has left idle_loop() on an exit request made while it
\* was parked, and the destructor is at the join.
C8_Witness ==
  \E t \in Slots : /\ call[Uci].op = "dtor" /\ call[Uci].pc = "join" /\ call[Uci].t = t
                   /\ wpc[t] = "done"
                   /\ ~hist.dtorSawSearching[t]

\* A session past the one-time initialisation block of its runner
PastInit(s) == sess[s].pc \in {"set", "loop", "teardown", "done"}

\* C9: Bitboards::init() runs exactly once for any number of sessions: never more
\* than once in the process, and once by the time a session is past its runner's
\* initialisation.
C9_BitboardsInitOnce ==
  /\ initCalls <= 1
  /\ \A s \in Sessions : PastInit(s) => initCalls = 1

\* A session inside Option::operator<< or about to enter it (UCI::init, make_option)
Registering(s) == sess[s].pc \in {"uci_init", "uci_init_w", "make_option", "make_option_w"}

\* The values a session's code reads where it stands: its own objects; the
\* counter Option::operator<< loads while the session registers options; the
\* pointer on_tune compares and the table on_hash_size resizes while the session
\* serves commands.
SessionReads(s) ==
  <<sess[s], Options[s],
    IF Registering(s) THEN <<insert_order>> ELSE <<>>,
    IF sess[s].pc = "loop" THEN <<LastOption, TT>> ELSE <<>> >>

\* C10: sessions share no mutable state: no step of one session changes a value
\* that another session reads.
C10_NoSharedMutableState ==
  [][\A s, t \in Sessions :
       (s # t /\ (sess'[t] # sess[t] \/ Options'[t] # Options[t]))
         => SessionReads(s)' = SessionReads(s)]_vars

\* C11: every line on a session's output pipe was produced by that session.
C11_OutputIsolation ==
  \A s \in Sessions : \A k \in 1 .. Len(out[s]) : out[s][k].by = s

\* C11 witness: session a was fed "uci" and "quit" and has returned, session b
\* was fed nothing and waits in its command loop with its banner on its pipe.
C11_Witness ==
  \E a, b \in Sessions :
    /\ a # b
    /\ sess[a].pc = "done" /\ sess[a].ucis = 1 /\ Len(out[a]) = 2
    /\ sess[b].pc = "loop" /\ sess[b].ucis = 0 /\ Len(out[b]) = 1

\* C12: no code run on behalf of a session writes to the process-wide console.
C12_NoConsoleOutput == console = {}

\* The producers between IO_LOCK and IO_UNLOCK
Emitting == {p \in Procs : ipc[p] # 0}

\* C13: at most one producer is between IO_LOCK and IO_UNLOCK, and the lines of a
\* block are adjacent on the stream: the line after a block's first line is the
\* same block's last line.
C13_ExclusiveEmission ==
  /\ Cardinality(Emitting) <= 1
  /\ \A k \in 1 .. Len(ios) :
       (ios[k].line = "first" /\ k < Len(ios))
         => /\ ios[k + 1].by = ios[k].by
            /\ ios[k + 1].block = ios[k].block
            /\ ios[k + 1].line = "last"

\* C13 witness: a producer is inside its block while another producer, which
\* has written before, is at IO_LOCK.
C13_Witness ==
  \E p, q \in Procs :
    /\ p # q
    /\ ipc[p] = 2
    /\ ipc[q] = 0 /\ iblk[q] = 1
    /\ Len(ios) = 3

\* ---------------------------------------------------------------- C15 .. C18
\* A step of the selection loop: worker gbt.k is examined against gbt.best
Examines == gbt.pc = "pick" /\ gbt'.k = gbt.k + 1
Forced == Abs(gbt.snap[gbt.best].score) >= VALUE_TB_WIN_IN_MAX_PLY
IsScenario ==
  \A i \in Workers : /\ gbt.snap[i].score = Scenario[i].score
                      /\ gbt.snap[i].depth = Scenario[i].depth
                      /\ gbt.snap[i].move = Scenario[i].move

\* C15 (as stated): while bestThread's score is not a forced win or loss, the
\* examined worker replaces bestThread only when its score qualifies and one of
\* the two vote conditions holds; a worker satisfying neither vote condition
\* never replaces bestThread in this branch.
C15_ReplacedOnlyByVotes ==
  [][(Examines /\ ~Forced /\ gbt'.best # gbt.best)
       => /\ gbt.snap[gbt.k].score > VALUE_TB_LOSS_IN_MAX_PLY
          /\ VoteWins(gbt.snap, gbt.k, gbt.best)]_vars

\* C15 (amended): while bestThread's score is not a forced win or loss, the
\* examined worker replaces bestThread only when its score is a tablebase win
\* (>= VALUE_TB_WIN_IN_MAX_PLY), or its score is above a tablebase loss
\* (> VALUE_TB_LOSS_IN_MAX_PLY) and one of the two vote conditions holds.
C15_ReplacedByWinOrVotes ==
  [][(Examines /\ ~Forced /\ gbt'.best # gbt.best)
       => \/ gbt.snap[gbt.k].score >= VALUE_TB_WIN_IN_MAX_PLY
          \/ /\ gbt.snap[gbt.k].score > VALUE_TB_LOSS_IN_MAX_PLY
             /\ VoteWins(gbt.snap, gbt.k, gbt.best)]_vars

\* C15 witness: the second worker has replaced the first in the non-forced
\* branch through a vote condition, its own score not being a tablebase win.
C15_Witness ==
  /\ gbt.pc = "pick" /\ gbt.k = 3 /\ gbt.best = 2
  /\ Abs(gbt.snap[1].score) < VALUE_TB_WIN_IN_MAX_PLY
  /\ gbt.snap[2].score < VALUE_TB_WIN_IN_MAX_PLY
  /\ VoteWins(gbt.snap, 2, 1)

\* C16: once bestThread's score is a forced win or loss, the examined worker
\* replaces it exactly when its score is strictly greater, whatever the votes.
C16_ForcedByScoreOnly ==
  [][(Examines /\ Forced)
       => gbt'.best = IF gbt.snap[gbt.k].score > gbt.snap[gbt.best].score
                        THEN gbt.k ELSE gbt.best]_vars

\* C16 witness: the first worker, with a forced win, is returned although
\* another worker with the same score wins a vote condition against it.
C16_Witness ==
  /\ gbt.pc = "returned" /\ gbt.best = 1
  /\ gbt.snap[1].score >= VALUE_TB_WIN_IN_MAX_PLY
  /\ \E i \in Workers : i # 1 /\ VoteWins(gbt.snap, i, 1)

\* C17 (as stated): for the scenario's workers minScore is 50, the values are
\* (640, 616, 120) and the vote totals are 1256 for e4 and 120 for d4.
C17_ScenarioVotes ==
  (gbt.pc # "start" /\ IsScenario)
    => /\ minScore(gbt.snap) = 50
       /\ [i \in Workers |-> thread_value(gbt.snap, i)] = <<640, 616, 120>>
       /\ votes(gbt.snap, "e4") = 1256
       /\ votes(gbt.snap, "d4") = 120

\* C17 (amended): for the scenario's workers minScore is 50, the values are
\* (640, 648, 112) and the vote totals are 1288 for e4 and 112 for d4.
C17_ScenarioVotesComputed ==
  (gbt.pc # "start" /\ IsScenario)
    => /\ minScore(gbt.snap) = 50
       /\ [i \in Workers |-> thread_value(gbt.snap, i)] = <<640, 648, 112>>
       /\ votes(gbt.snap, "e4") = 1288
       /\ votes(gbt.snap, "d4") = 112

\* C17 witness: the votes have been computed for the scenario's workers.
C17_Witness == gbt.pc = "pick" /\ gbt.k = 1 /\ IsScenario

\* C18 (as stated): for the scenario's workers get_best_thread() returns the
\* first worker for every length of the workers' PVs.
C18_ScenarioReturnsFirst ==
  (gbt.pc = "returned" /\ IsScenario) => gbt.best = 1

\* C18 (amended): for the scenario's workers get_best_thread() returns the
\* second worker when its PV is longer than two moves and the first worker
\* otherwise.
C18_ScenarioReturnsHigherValue ==
  (gbt.pc = "returned" /\ IsScenario)
    => gbt.best = IF gbt.snap[2].pvsize > 2 THEN 2 ELSE 1

\* C18 witness: all three PVs are longer than two moves and the second worker
\* is returned.
C18_Witness ==
  /\ gbt.pc = "returned" /\ IsScenario
  /\ \A i \in Workers : gbt.snap[i].pvsize > 2
  /\ gbt.best = 2

\* ------------------------------------------------------------------------ C19
\* C19: an existing non-main worker that is not asked to exit (the destructor
\* raises the same flag after exit) is set to searching only by the main thread,
\* inside the pool's start_searching() that its search() begins with; and the
\* start_searching() that ends start_thinking() never waits for the search: once
\* the main thread's mutex is free, the command loop can take its next step.
C19_OnlyMainWokenNoWait ==
  /\ [][\A t \in Slots \ {0} :
         (kind[t] # "None" /\ ~exit[t] /\ ~searching[t] /\ searching'[t])
           => /\ wpc[0] = "pool_ss"
              /\ call[0].op = "start_searching"
              /\ call[0].t = t]_vars
  /\ []((/\ ~aborted
         /\ call[Uci].op = "start_searching"
         /\ call[Uci].pc = "lock" => mutex[call[Uci].t] = Free)
          => ENABLED CallStep(Uci))

\* C19 witness: start_thinking() has returned on a pool of two; the main thread
\* is set to searching and has not begun its search, the other worker is idle.
C19_Witness ==
  /\ upc = "idle" /\ call[Uci] = NoCall
  /\ Len(threads) = 2
  /\ searching[0] /\ wpc[0] \in {"blocked", "wait"}
  /\ ~searching[1] /\ wpc[1] = "blocked"

\* ------------------------------------------------------------------------ C20
\* start_thinking() executes thread.cpp:174-193
TakesHistory == upc = "st_flags" /\ (upc' = "st_reset" \/ (aborted' /\ ~aborted))

\* C20: start_thinking() given a non-empty handle moves it into the pool and
\* leaves the caller's handle empty; given an empty handle it leaves the history
\* the pool retains unchanged; given an empty handle while the pool retains
\* nothing it fails its assertion (in a build that has assertions) and the pool
\* still retains nothing.
C20_HistoryMoved ==
  [][TakesHistory
       => /\ states # Null
               => (setupStates' = states /\ states' = Null /\ ~aborted')
          /\ (states = Null /\ setupStates # Null)
               => (setupStates' = setupStates /\ states' = Null /\ ~aborted')
          /\ (states = Null /\ setupStates = Null)
               => (setupStates' = Null /\ (~ndebug => aborted'))]_vars

\* C20 witness: a call given an empty handle has kept the list a previous call
\* moved into the pool.
C20_Witness ==
  /\ upc = "st_reset"
  /\ hist.given = Null
  /\ setupStates \in Lists
  /\ states = Null

\* C20 witness of the third case: a call given an empty handle on a pool that
\* retains nothing has failed its assertion.
C20_AssertionFailed == aborted /\ upc = "st_flags" /\ states = Null /\ setupStates = Null

\* ------------------------------------------------------------------ C21, C29
\* start_thinking() is about to wake the main thread (thread.cpp:209)
AboutToWake == upc = "st_wake" /\ call[Uci] = NoCall /\ ~aborted
Zeroed(i) ==
  /\ nodes[i] = 0
  /\ wstat[i].tbHits = 0 /\ wstat[i].bestMoveChanges = 0 /\ wstat[i].nmpMinPly = 0
  /\ wstat[i].rootDepth = 0 /\ wstat[i].completedDepth = 0

\* C21 (as stated): when start_thinking() wakes the main thread every worker has
\* its counters and depths at 0 and holds the same root-move list: the legal
\* moves of the position that are in the allow-list (all of them when the
\* allow-list is empty), in enumeration order.
C21_RootMovesEnumerated ==
  AboutToWake =>
    \A i \in 0 .. (Len(threads) - 1) :
      Zeroed(i) /\ wstat[i].rootMoves = Allowed(go.legal, go.searchmoves)

\* C21 (amended): when start_thinking() wakes the main thread every worker has
\* its counters and depths at 0 and holds the same root-move list, which
\* contains exactly the legal moves of the position that are in the allow-list
\* (all of them when the allow-list is empty), in the order in which
\* rank_root_moves() left them.
C21_RootMovesRanked ==
  AboutToWake =>
    \A i \in 0 .. (Len(threads) - 1) :
      /\ Zeroed(i)
      /\ wstat[i].rootMoves = wstat[0].rootMoves
      /\ wstat[i].rootMoves \in Ranked(Allowed(go.legal, go.searchmoves))

\* C21 witness: a later start_thinking(), called with the handle an earlier call
\* emptied, is about to wake the main thread of a pool of two, with both legal
\* moves as root moves.
C21_Witness ==
  /\ AboutToWake /\ Len(threads) = 2
  /\ hist.given = Null
  /\ Len(wstat[1].rootMoves) = 2

\* C29 (as stated): rank_root_moves() is called exactly once per start_thinking()
\* call, whatever the position and the allow-list.
C29_RankedOnce == AboutToWake => hist.ranked = 1

\* C29 (amended): rank_root_moves() is called exactly once per start_thinking()
\* call whose root-move list is not empty, and not at all when the position and
\* the allow-list leave the root-move list empty.
C29_RankedOnceIfAny ==
  AboutToWake =>
    hist.ranked = IF Allowed(go.legal, go.searchmoves) = <<>> THEN 0 ELSE 1

\* C29 witness: a call whose allow-list holds no legal move is about to wake the
\* main thread.
C29_Witness ==
  /\ AboutToWake
  /\ go.legal # <<>> /\ go.searchmoves # {}
  /\ Allowed(go.legal, go.searchmoves) = <<>>

\* ------------------------------------------------------------------------ C22
\* C22: the step in which a session's runner returns (its configuration objects
\* are destroyed on the way out) starts from a pool of size zero and returns
\* status 0; a runner that has returned has no workers left.
C22_PoolEmptiedBeforeReturn ==
  /\ [][\A s \in Sessions :
         (sess[s].pc # "done" /\ sess'[s].pc = "done")
           => (sess[s].pool = 0 /\ sess'[s].status = 0)]_vars
  /\ [](\A s \in Sessions : sess[s].pc = "done" => sess[s].pool = 0)

\* C22 witness: a session that ran with a worker pool has returned while another
\* is still in its command loop.
C22_Witness ==
  \E a, b \in Sessions :
    /\ sess[a].pc = "done" /\ sess[a].status = 0 /\ sess[a].pool = 0
    /\ sess[b].pc = "loop" /\ sess[b].pool > 0

\* ------------------------------------------------------------------------ C23
\* C23: an opener that has returned a non-zero status (a pipe, a stream or the
\* runner thread could not be created) has none of its descriptors open.
C23_FailureClosesDescriptors ==
  \A s \in Sessions :
    (opener[s].pc = "returned" /\ opener[s].status # 0)
      => \A f \in fds : f[1] # s

\* ------------------------------------------------------------------------ C25
\* The options of session s's map in the order in which the session inserted
\* them: UCI::init's options, then tune.init()'s
Inserted(s) ==
  SelectSeq(SubSeq(OptionNames, 1, MaxOptions) \o <<"tuned">>,
            LAMBDA n : n \in DOMAIN Options[s])

\* C25: printing the options map of a session that has set up its options lists
\* each option of the map once, in the order in which they were inserted.
C25_PrintedInInsertionOrder ==
  \A s \in Sessions : sess[s].pc = "loop" => OptionsPrinted(s) = Inserted(s)

\* ---- C26
\* The assignment that has just been made: the value and the option before it
Assigned == opt'.assigns = opt.assigns + 1
FailsValidation(o, v) ==
  \/ o.type \notin {"button", "string"} /\ v = ""
  \/ o.type = "check" /\ v \notin {"true", "false"}
  \/ o.type = "spin" /\ v \in Numeric /\ (Stof(v) < o.min \/ Stof(v) > o.max)
  \/ o.type = "combo" /\ (ToLower(v) \notin {ToLower(t) : t \in ComboTokens} \/ v = "var")
PassesValidation(o, v) == ~FailsValidation(o, v) /\ (o.type = "spin" => v \in Numeric)

\* C26: an assignment whose value fails validation (empty for a type other than
\* button and string, a check value other than "true" and "false", a spin value
\* outside [min, max], a combo value that is no listed token or is "var") leaves
\* currentValue as it was and calls no on_change; an assignment whose value
\* passes sets currentValue to it (a button keeps its value) and calls the
\* option's on_change exactly once.
C26_AssignmentValidated ==
  [][Assigned =>
       /\ FailsValidation(opt, opt'.arg) =>
            opt'.currentValue = opt.currentValue /\ opt'.changes = opt.changes
       /\ PassesValidation(opt, opt'.arg) =>
            /\ opt'.currentValue = IF opt.type = "button" THEN opt.currentValue
                                   ELSE opt'.arg
            /\ opt'.changes = IF opt.on_change THEN opt.changes + 1
                              ELSE opt.changes]_vars
\* a spin option with an on_change action that took one assignment in range
\* and then refused one out of range
C26_Witness ==
  /\ opt.type = "spin" /\ opt.on_change
  /\ opt.assigns = 2 /\ opt.changes = 1 /\ opt.arg = "2000" /\ opt.currentValue = "5"

\* ---- C24
RECURSIVE TotalUpTo(_, _)
TotalUpTo(member, n) == IF n = 0 THEN 0 ELSE TotalUpTo(member, n - 1) + Load(member, n - 1)
\* The exact sum of a counter over the Threads of the pool
Total(member) == TotalUpTo(member, Len(threads))
Summing(p) == call[p].op = "accumulate"

\* C24: nodes_searched() and tb_hits() sum the counter over the pool's Threads
\* and no step of theirs takes or waits for a mutex; a call during which no
\* Thread is searching returns the exact sum, which is 0 once start_thinking()
\* has reset the Threads; and while a call is under way a searching worker can
\* still update its counter.
C24_SumWithoutLock ==
  /\ [][\A p \in Callers :
          /\ Summing(p) /\ call'[p] # call[p] => mutex' = mutex /\ cv' = cv
          /\ Summing(p) /\ call'[p] = NoCall /\ acc'[p].quiet =>
               acc'[p].result = Total(acc[p].member)]_vars
  /\ [](AboutToWake => \A member \in Members : Total(member) = 0)
  /\ [](\A p \in Callers :
          Summing(p) /\ ~aborted => /\ ENABLED AccStep(p)
                                    /\ \A i \in Slots \ {p} :
                                         wpc[i] = "run" /\ call[i] = NoCall /\ nodes[i] < MaxNodes
                                           => ENABLED SearchWork(i))
\* the command loop has read the exact sum of Threads that had counted nodes,
\* and now the main thread is summing while another worker searches
C24_Witness ==
  /\ acc[Uci].result >= 2 /\ acc[Uci].quiet /\ call[Uci] = NoCall
  /\ Summing(0) /\ call[0].t = 1 /\ wpc[1] = "run" /\ nodes[1] < MaxNodes

\* ---- C27
\* The main thread leaves the point where it calls get_best_thread() and emits
SelectsBest == wpc[0] = "m_best" /\ wpc'[0] # "m_best"
InSearch(i) == wpc[i] = "run" \/ searching[i]

\* C27: the main thread has set the stop flag from the end of its own search
\* on, through its wait for the other workers; and when it calls
\* get_best_thread() and emits, the flag is set and no other worker of the
\* pool is searching or inside search().
C27_BestReadsIdleWorkers ==
  /\ [](kind[0] = "Main" /\ wpc[0] \in {"pool_wait", "m_best"} => stop)
  /\ [][SelectsBest => stop /\ \A i \in Others : ~InSearch(i)]_vars
\* the main thread is about to select among two workers that both searched
C27_Witness ==
  /\ wpc[0] = "m_best" /\ call[0] = NoCall /\ Others # {}
  /\ \A i \in Others : nodes[i] > 0

\* ---- C28
\* A search of the pool is under way and the stop flag is set
StopDuringSearch ==
  /\ ~aborted /\ stop /\ kind[0] = "Main" /\ searching[0]
  /\ wpc[0] \in {"pool_ss", "run", "m_stop", "pool_wait", "m_best"}
AllIdle == \A i \in 0 .. (Len(threads) - 1) : ~searching[i]

\* C28: once the stop flag is set during a search, with every worker polling
\* it, eventually every worker of the pool is idle, the main thread is parked
\* idle and exactly one answer has been emitted for the start_thinking() call;
\* never more than one answer is emitted for a call.
C28_StopEndsSearch ==
  /\ [](hist.answers <= 1)
  /\ StopDuringSearch ~> (AllIdle /\ Parked(0) /\ hist.answers = 1)
\* the flag was set while the main thread and another worker were in search()
C28_Witness ==
  /\ stop /\ kind[0] = "Main" /\ wpc[0] = "run" /\ call[0] = NoCall
  /\ \E i \in Others : wpc[i] = "run" /\ searching[i]

\* ---- C30
\* C30: a worker that was asked to exit never reads as searching, neither
\* before it has terminated nor after.
C30_ExitNeverReadsSearching ==
  \A i \in Slots : kind[i] # "None" /\ exit[i] => ~searching[i]

\* ---- C31
\* C31: the startup mutex is held only while the initialization flag is checked
\* and the initialization runs; so while one session is in its command loop a
\* session that wants the mutex can take it and go on.
C31_LockOnlyAroundInit ==
  /\ \A s \in Sessions : mtx = s => sess[s].pc \in {"bitboards", "unlock"}
  /\ \A s, t \in Sessions :
       sess[s].pc = "loop" /\ sess[t].pc = "lock" /\ ~aborted => ENABLED W_lock(t)

\* ---- C35
\* The session is at its banner or further: option initialization, pool
\* creation, command loop, teardown, returned
BeyondInit(s) == sess[s].pc \notin {"none", "lock", "bitboards", "unlock"}

\* C35: in the runner of part_000 no session is at its banner or further
\* before the one-time initialization has run and its flag is set, whichever
\* session ran it.
C35_InitBeforeStartup ==
  \A s \in Sessions :
    unit = "part_000" /\ BeyondInit(s) => bitboards_initialized /\ initCalls = 1
\* a session that did not run the initialization itself is in its command loop
\* while the session that ran it is still at its banner
C35_Witness ==
  /\ unit = "part_000"
  /\ \E s, t \in Sessions : s # t /\ sess[s].pc = "loop" /\ sess[t].pc = "banner"

\* ---- C32
\* The runner of session s has been created and its supervisor feeds the script
Supervised(s) == opener[s].pc = "running"
Finished(s) == opener[s].pc = "returned" /\ opener[s].status = 0 /\ super.gone[s]

AllStarted == super.pc \in {"join", "foreground", "last", "returned"}

CtorReturns(t) ==
  /\ upc = "set_push"
  /\ call[Uci].op = "wait_for_search_finished"
  /\ call[Uci].t = t
  /\ call'[Uci] = NoCall

\* ThreadPool::set() returns
SetReturns == upc \in {"set_new", "set_more"} /\ upc' = "idle"

\* Worker i is in the Idle state: searching = false, inside cv.wait of idle_loop()
IdleWorker(i) == ~searching[i] /\ wpc[i] \in {"wait", "blocked"}

\* C33: the Thread constructor returns only after the new worker has entered its
\* idle loop and set searching = false (the worker is then blocked in cv.wait);
\* so when ThreadPool::set(n) returns every worker of the pool is Idle.
C33_BuiltPoolIsIdle ==
  /\ [][\A t \in Slots : CtorReturns(t) => ~searching'[t] /\ wpc'[t] = "blocked"]_vars
  /\ [][SetReturns => /\ Len(threads') = requested
                      /\ \A i \in 0 .. (Len(threads') - 1) : IdleWorker(i)']_vars

\* C33 witness: set(n) is about to return on a pool of two workers it has built.
C33_Witness ==
  /\ upc = "set_more"
  /\ requested = 2
  /\ Len(threads) = 2
  /\ \A i \in 0 .. 1 : IdleWorker(i)

\* C34: once the pool is built, whenever the main thread is Idle every other
\* worker of the pool is Idle too: a non-main worker has searching = true only
\* during an invocation of the main thread's search().
C34_MainIdleMeansAllIdle ==
  (Len(threads) > 0 /\ kind[0] = "Main" /\ MainIdle) => \A i \in Others : ~searching[i]

\* Caller p is inside wait_for_search_finished() on the worker with idx 1
InWait(p) == call[p].op = "wait_for_search_finished" /\ call[p].t = 1

\* C36: notify_one on the worker's one condition variable serves any number of
\* waiters.  No caller of wait_for_search_finished() stays inside it for ever
\* while the worker stays idle, and every start_searching() that sets the idle
\* worker to searching leads to an invocation of its search().
C36_NotifyOneServesAllWaiters ==
  /\ \A p \in Waiters : []<>(~InWait(p) \/ searching[1])
  /\ (hist.pending[1] = 1) ~> (hist.pending[1] = 0)

\* C37: every field the worker's thread body reads when it starts (the pool
\* back-reference _threads, searching, exit) has been initialized by the
\* constructor before the worker thread begins idle_loop().
C37_InitializedBeforeStart ==
  \A i \in Slots :
    (kind[i] # "None" /\ wpc[i] = "start")
      => threads_initialized(i) /\ searching[i] /\ ~exit[i]

\* C38: when at least one worker's root score is a forced win
\* (>= VALUE_TB_WIN_IN_MAX_PLY), get_best_thread() returns a worker whose root
\* score is the maximum over all workers, whatever the votes and the pool order.
C38_ForcedWinReturnsMaximum ==
  (/\ gbt.pc = "returned"
   /\ \E i \in DOMAIN gbt.snap : gbt.snap[i].score >= VALUE_TB_WIN_IN_MAX_PLY)
    => \A i \in DOMAIN gbt.snap : gbt.snap[gbt.best].score >= gbt.snap[i].score

\* C38 witness: the worker returned has the highest score, a forced win, and is
\* not the first of the pool; an earlier worker has a lower forced win, and
\* another worker wins the vote against the one returned.
C38_Witness ==
  /\ gbt.pc = "returned"
  /\ gbt.best > 1
  /\ gbt.snap[gbt.best].score > VALUE_TB_WIN_IN_MAX_PLY
  /\ \E i \in 1 .. (gbt.best - 1) : gbt.snap[i].score = VALUE_TB_WIN_IN_MAX_PLY
  /\ \E i \in DOMAIN gbt.snap : VoteWins(gbt.snap, i, gbt.best)

SessionTypeOK ==
  /\ mtx \in Sessions \cup {NoSession}
  /\ initCalls \in 0 .. MaxSessions
  /\ insert_order \in 0 .. (MaxSessions * (MaxOptions + 1))
  /\ \A s \in Sessions : DOMAIN Options[s] \subseteq
        {OptionNames[k] : k \in 1 .. MaxOptions} \cup {"tuned"}
====
